---- MODULE Spec2Model ----
(***************************************************************************)
(* Model of the application dashboard (src/app.py): the JSON ingestion     *)
(* pipeline (load_and_validate_json, process_instance_data), the SQLite    *)
(* persistence functions and the database-management part of main().       *)
(*                                                                         *)
(* The specifications share the variables.  The main ones:                 *)
(*   SpecIngest  one call of process_instance_data, one loop iteration per *)
(*               step, over every bounded sequence of uploaded files;      *)
(*   SpecStore   the persistence functions called in any order, with       *)
(*               save_data_to_db split into its SQL statements so that a   *)
(*               reader or a failure can fall between them;                *)
(*   Spec        the script runs of main(): one run per user interaction.  *)
(* The others start one of these from other states (SpecRestart,           *)
(* SpecLegacy, SpecPorts, SpecValidate, SpecIngestTwice), add the calls of *)
(* one more function (SpecUserTables, SpecCustomTables, SpecEditor,        *)
(* SpecSession, SpecSummary) or apply a pure function (SpecFilter).        *)
(***************************************************************************)
EXTENDS Integers, Sequences, FiniteSets, TLC

VARIABLES
    uploaded_files,     \* the file objects the uploader holds (name, content, read position)
    idx,                \* process_instance_data: index of the next file of the loop
    all_dataframes,     \* process_instance_data: one row sequence per accepted file
    combined_df,        \* process_instance_data: the returned DataFrame (a row sequence)
    ipc,                \* process_instance_data: "loop" | "done"
    processing_errors,  \* st.session_state.processing_errors
    db,                 \* the committed content of dashboard_data.db
    conn,               \* the connection of a save_data_to_db in progress
    ret,                \* the last persistence call and what it returned
    hist,               \* history: what the calls before were given and found
    clock,              \* the wall clock, in seconds
    session,            \* st.session_state: processed_data, data_loaded, confirm_clear
    ui,                 \* the script run: pending rerun, what the last run was and
                        \* did, and the keys st.cache_data holds
    editor              \* st.session_state of the custom table editor: custom_tables,
                        \* current_custom_table, editing_table_data

vars == <<uploaded_files, idx, all_dataframes, combined_df, ipc, processing_errors,
          db, conn, ret, hist, clock, session, ui, editor>>

ingestVars == <<uploaded_files, idx, all_dataframes, combined_df, ipc>>
storeVars == <<db, conn, ret, hist, clock>>
uiVars == <<session, ui, editor>>

(***************************************************************************)
(* Bounds of the model.                                                    *)
(***************************************************************************)
MaxFiles == 3       \* files in one upload batch
MaxRows == 2        \* rows of a dataset handed to save_data_to_db
MaxTime == 2        \* seconds the wall clock runs

\* ------------------------------------------------------------------------
\* JSON values, as json.loads returns them (tagged, so that values of
\* different Python types can be compared).
\* ------------------------------------------------------------------------
JStr(s) == [t |-> "str", s |-> s]
JNum(n) == [t |-> "num", n |-> n]
JList(items) == [t |-> "list", items |-> items]
JObj(f) == [t |-> "obj", f |-> f]

IsStr(v) == v.t = "str"
IsList(v) == v.t = "list"
IsObj(v) == v.t = "obj"
HasKey(v, k) == k \in DOMAIN v.f

\* dict.get(key, default) on a parsed object.
Get(v, k, default) == IF HasKey(v, k) THEN v.f[k] ELSE default

\* str.strip() leaves nothing of these strings.
Whitespace == {"", " ", "  "}
StripIsEmpty(s) == s \in Whitespace

\* ', '.join(parts) for a sequence of strings.
RECURSIVE Join(_)
Join(parts) ==
    IF parts = <<>> THEN ""
    ELSE IF Len(parts) = 1 THEN parts[1]
    ELSE parts[1] \o ", " \o Join(Tail(parts))

\* str(x) of a JSON scalar.
PyStr(v) == IF v.t = "num" THEN ToString(v.n) ELSE v.s

\* The name of the Python type, as a TypeError message prints it.
PyType(v) == IF v.t = "num" THEN "int" ELSE IF v.t = "list" THEN "list" ELSE v.t

\* ------------------------------------------------------------------------
\* Uploaded files.  A content is the empty byte string, bytes that are not
\* JSON (with the line and message of the decode error), or the text of a
\* JSON value.  A file object is read from its position: read() returns what
\* is left and moves the position to the end.
\* ------------------------------------------------------------------------
EmptyBytes == [k |-> "empty"]
BadJson(lineno, msg) == [k |-> "bad", lineno |-> lineno, msg |-> msg]
JsonText(v) == [k |-> "json", v |-> v]

FileRead(file) == IF file.pos = 0 THEN file.content ELSE EmptyBytes
FileAfterRead(file) == [file EXCEPT !.pos = 1]

Ok(data) == [ok |-> TRUE, data |-> data]
Raise(msg) == [ok |-> FALSE, msg |-> msg]

required_fields == <<"instance_id", "instance_name", "applications">>

\* A check that reports the first missing field only.
FirstMissingOnly(data) ==
    LET m == SelectSeq(required_fields,
                       LAMBDA fld : IF IsObj(data) THEN ~HasKey(data, fld)
                                    ELSE \A i \in 1..Len(data.items) : data.items[i] # JStr(fld))
    IN  IF m = <<>> THEN <<>> ELSE <<m[1]>>

\* [field for field in required_fields if field not in data], for a dict
\* (key membership) and for a list (element membership).
MissingFields(data) ==
    SelectSeq(required_fields,
              LAMBDA fld : IF IsObj(data) THEN ~HasKey(data, fld)
                           ELSE \A i \in 1..Len(data.items) : data.items[i] # JStr(fld))

\* An applications loop that only looks whether the entries are objects.
FirstNonObject(apps) ==
    LET bad == {i \in 1..Len(apps) : ~IsObj(apps[i])}
    IN  IF bad = {} THEN 0 ELSE CHOOSE i \in bad : \A j \in bad : i <= j

\* The loop over data['applications']: the first entry that is not an object
\* or has no 'name' raises; 0 when there is none.
FirstBadApp(apps) ==
    LET bad == {i \in 1..Len(apps) : ~IsObj(apps[i]) \/ ~HasKey(apps[i], "name")}
    IN  IF bad = {} THEN 0 ELSE CHOOSE i \in bad : \A j \in bad : i <= j

\* The body of the try block of load_and_validate_json: the ValueError (or
\* TypeError) it raises, or the parsed data.
ValidateBody(content) ==
    IF content.k = "empty" THEN Raise("File is empty")
    ELSE LET data == content.v IN
    IF ~(IsObj(data) \/ IsList(data))
        THEN Raise("argument of type '" \o PyType(data) \o "' is not iterable")
    ELSE IF MissingFields(data) # <<>>
        THEN Raise("Missing required fields: " \o Join(MissingFields(data)))
    ELSE IF ~IsObj(data)
        THEN Raise("list indices must be integers or slices, not str")
    ELSE IF ~IsStr(data.f.instance_id) \/ StripIsEmpty(data.f.instance_id.s)
        THEN Raise("'instance_id' must be a non-empty string")
    ELSE IF ~IsStr(data.f.instance_name) \/ StripIsEmpty(data.f.instance_name.s)
        THEN Raise("'instance_name' must be a non-empty string")
    ELSE IF ~IsList(data.f.applications)
        THEN Raise("'applications' must be a list")
    ELSE IF Len(data.f.applications.items) = 0
        THEN Raise("'applications' list is empty")
    ELSE LET i == FirstBadApp(data.f.applications.items) IN
    IF i # 0 /\ ~IsObj(data.f.applications.items[i])
        THEN Raise("Application " \o ToString(i) \o " must be an object")
    ELSE IF i # 0
        THEN Raise("Application " \o ToString(i) \o " missing 'name' field")
    ELSE Ok(data)

\* load_and_validate_json: a JSONDecodeError becomes "Invalid JSON format at
\* line ..", every other exception "Error processing file: ..".
load_and_validate_json(file) ==
    LET content == FileRead(file) IN
    IF content.k = "bad"
        THEN Raise("Invalid JSON format at line " \o ToString(content.lineno)
                   \o ": " \o content.msg)
    ELSE LET r == ValidateBody(content) IN
         IF r.ok THEN r ELSE Raise("Error processing file: " \o r.msg)

\* ------------------------------------------------------------------------
\* Flattening: one row per application entry.
\* ------------------------------------------------------------------------
\* ', '.join(map(str, app.get(key, []))): iterating a number raises TypeError.
JoinedOk(app, key) == ~HasKey(app, key) \/ IsList(app.f[key])
Joined(app, key) ==
    IF ~HasKey(app, key) THEN ""
    ELSE Join([i \in 1..Len(app.f[key].items) |-> PyStr(app.f[key].items[i])])

AppInfo(data, app) ==
    [instance_id    |-> Get(data, "instance_id", JStr("Unknown")).s,
     instance_name  |-> Get(data, "instance_name", JStr("Unknown")).s,
     script_version |-> Get(data, "script_version", JStr("Unknown")).s,
     app_name       |-> Get(app, "name", JStr("Unknown")).s,
     app_type       |-> Get(app, "type", JStr("Unknown")).s,
     app_status     |-> Get(app, "status", JStr("Unknown")).s,
     app_image      |-> Get(app, "image", JStr("")).s,
     ports          |-> Joined(app, "ports"),
     pids           |-> Joined(app, "pids"),
     process_name   |-> Get(app, "process_name", JStr("")).s,
     container_id   |-> Get(app, "container_id", JStr("")).s]

\* A flattening that emits the row of the first application only.
FlattenFirstOnly(data) ==
    LET apps == Get(data, "applications", JList(<<>>)).items
    IN  Ok([i \in 1..(IF apps = <<>> THEN 0 ELSE 1) |-> AppInfo(data, apps[i])])

\* The for loop over applications: app_data, or the TypeError of the first
\* application whose ports or pids cannot be iterated.
Flatten(data) ==
    LET apps == Get(data, "applications", JList(<<>>)).items
        bad == {i \in 1..Len(apps) : ~JoinedOk(apps[i], "ports") \/ ~JoinedOk(apps[i], "pids")}
    IN  IF bad # {} THEN Raise("'int' object is not iterable")
        ELSE Ok([i \in 1..Len(apps) |-> AppInfo(data, apps[i])])

ErrorEntry(name, msg) == "Error processing " \o name \o ": " \o msg

\* One iteration of the loop of process_instance_data: the DataFrame the file
\* adds (none: <<>>) and the entry it appends to processing_errors (none: <<>>).
ProcessFile(file) ==
    LET v == load_and_validate_json(file) IN
    IF ~v.ok THEN [dfs |-> <<>>, errs |-> <<ErrorEntry(file.name, v.msg)>>]
    ELSE IF Get(v.data, "applications", JList(<<>>)).items = <<>>
        THEN [dfs |-> <<>>,
              errs |-> <<ErrorEntry(file.name, "Error processing file: 'applications' list is empty")>>]
    ELSE LET r == Flatten(v.data) IN
         IF ~r.ok THEN [dfs |-> <<>>, errs |-> <<ErrorEntry(file.name, r.msg)>>]
         ELSE IF r.data # <<>> THEN [dfs |-> <<r.data>>, errs |-> <<>>]
         ELSE [dfs |-> <<>>, errs |-> <<>>]

\* A concatenation that drops the rows it has already seen.
RECURSIVE Dedup(_)
Dedup(rows) ==
    IF rows = <<>> THEN <<>>
    ELSE LET front == Dedup(SubSeq(rows, 1, Len(rows) - 1))
             last == rows[Len(rows)]
         IN  IF \E k \in 1..Len(front) : front[k] = last THEN front
             ELSE Append(front, last)
RECURSIVE ConcatAll(_)
ConcatAll(dfs) == IF dfs = <<>> THEN <<>> ELSE Head(dfs) \o ConcatAll(Tail(dfs))
ConcatDedup(dfs) == Dedup(ConcatAll(dfs))

\* pd.concat(all_dataframes, ignore_index=True), or the empty DataFrame.
RECURSIVE Concat(_)
Concat(dfs) == IF dfs = <<>> THEN <<>> ELSE Head(dfs) \o Concat(Tail(dfs))

\* ------------------------------------------------------------------------
\* The input domain: application entries, documents and file contents.
\* ------------------------------------------------------------------------
AppFull ==
    JObj([name |-> JStr("nginx"), type |-> JStr("docker"), status |-> JStr("running"),
          image |-> JStr("nginx:latest"), ports |-> JList(<<JNum(80), JNum(443)>>),
          pids |-> JList(<<JNum(12)>>), process_name |-> JStr("nginx"),
          container_id |-> JStr("abc")])
AppMinimal == JObj([name |-> JStr("redis")])
AppNoName == JObj([type |-> JStr("docker")])
AppBadPorts == JObj([name |-> JStr("db"), ports |-> JNum(80)])

Doc(id, nm, apps) ==
    JObj([instance_id |-> id, instance_name |-> nm, applications |-> apps])

DocOne ==
    JObj([instance_id |-> JStr("i-1"), instance_name |-> JStr("web"),
          script_version |-> JStr("1.0"), applications |-> JList(<<AppFull>>)])
DocTwo == Doc(JStr("i-2"), JStr("cache"), JList(<<AppMinimal, AppFull>>))

\* Documents that validate and flatten.
GoodContents == {JsonText(DocOne), JsonText(DocTwo)}

\* Contents that fail: in read, in json.loads, in a validation check, or in
\* the flattening of an application.
BadContents ==
    {EmptyBytes,
     BadJson(1, "Expecting ',' delimiter"),
     JsonText(JNum(5)),
     JsonText(JList(<<JStr("instance_id")>>)),
     JsonText(JObj([instance_id |-> JStr("i-3")])),
     JsonText(Doc(JNum(7), JStr("web"), JList(<<AppFull>>))),
     JsonText(Doc(JStr("i-3"), JStr(" "), JList(<<AppFull>>))),
     JsonText(Doc(JStr("i-3"), JStr("web"), JStr("nginx"))),
     JsonText(Doc(JStr("i-3"), JStr("web"), JList(<<>>))),
     JsonText(Doc(JStr("i-3"), JStr("web"), JList(<<AppFull, JNum(1)>>))),
     JsonText(Doc(JStr("i-3"), JStr("web"), JList(<<AppMinimal, AppNoName>>))),
     JsonText(Doc(JStr("i-3"), JStr("web"), JList(<<AppMinimal, AppBadPorts>>)))}

Contents == GoodContents \cup BadContents

\* The file at position i of a batch is named f<i>.json; it is unread.
FileName(i) == "f" \o ToString(i) \o ".json"
NewFile(i, content) == [name |-> FileName(i), content |-> content, pos |-> 0]
Batches(S, n) ==
    UNION {{[i \in 1..m |-> NewFile(i, c[i])] : c \in [1..m -> S]} : m \in 0..n}

\* ------------------------------------------------------------------------
\* The persistence store and the session before anything has run.
\* ------------------------------------------------------------------------
NoDb ==
    [exists |-> FALSE, tables |-> {}, application_data |-> <<>>,
     user_tables |-> <<>>, has_custom_columns |-> FALSE, custom_tables |-> <<>>]
NoConn == [open |-> FALSE]
NoSession == [has_data |-> FALSE, processed_data |-> <<>>, data_loaded |-> FALSE,
              confirm_clear |-> FALSE]
NoUi == [rerun |-> FALSE, last |-> "start", did |-> {}, cache |-> {}]
\* The editor's keys are not in the session state yet.
NoEditor == [loaded |-> FALSE, custom_tables |-> <<>>, current_custom_table |-> "",
             editing_table_data |-> [t |-> "null"], shared |-> FALSE]

NoCall == [op |-> "none", ok |-> TRUE]
\* The names a user gives to tables.
TableNames == {"t1", "t2"}
Absent == [present |-> FALSE, deleted |-> FALSE]
Deleted == [present |-> FALSE, deleted |-> TRUE]
NoHist == [saved |-> <<>>, pre |-> <<>>, wrote |-> "none",
           cfg |-> [n \in TableNames |-> Absent],
           custom |-> [n \in TableNames |-> [t |-> "null"]],
           pass |-> 1, first |-> [df |-> <<>>, errs |-> <<>>]]

StoreIdle == db = NoDb /\ conn = NoConn /\ ret = NoCall /\ hist = NoHist /\ clock = 1
UiIdle == session = NoSession /\ ui = NoUi /\ editor = NoEditor

\* ------------------------------------------------------------------------
\* SpecIngest: process_instance_data(uploaded_files), one file per step.
\* ------------------------------------------------------------------------
InitIngest ==
    /\ uploaded_files \in Batches(Contents, MaxFiles)
    /\ idx = 1
    /\ all_dataframes = <<>>
    /\ combined_df = <<>>
    /\ ipc = "loop"
    /\ processing_errors = <<>>
    /\ StoreIdle
    /\ UiIdle

\* for uploaded_file in uploaded_files: try .. except .. continue
IngestLoopBreak ==
    /\ ipc = "loop"
    /\ idx <= Len(uploaded_files)
    /\ LET r == ProcessFile(uploaded_files[idx]) IN
       /\ all_dataframes' = all_dataframes \o r.dfs
       /\ processing_errors' = processing_errors \o r.errs
       /\ idx' = IF r.errs # <<>> THEN Len(uploaded_files) + 1 ELSE idx + 1
    /\ uploaded_files' = [uploaded_files EXCEPT ![idx] = FileAfterRead(@)]
    /\ UNCHANGED <<combined_df, ipc, storeVars, uiVars>>

\* A loop that puts the entry of a failing file in front of the list.
IngestLoopPrepend ==
    /\ ipc = "loop"
    /\ idx <= Len(uploaded_files)
    /\ LET r == ProcessFile(uploaded_files[idx]) IN
       /\ all_dataframes' = all_dataframes \o r.dfs
       /\ processing_errors' = r.errs \o processing_errors
    /\ uploaded_files' = [uploaded_files EXCEPT ![idx] = FileAfterRead(@)]
    /\ idx' = idx + 1
    /\ UNCHANGED <<combined_df, ipc, storeVars, uiVars>>

IngestLoop ==
    /\ ipc = "loop"
    /\ idx <= Len(uploaded_files)
    /\ LET r == ProcessFile(uploaded_files[idx]) IN
       /\ all_dataframes' = all_dataframes \o r.dfs
       /\ processing_errors' = processing_errors \o r.errs
    /\ uploaded_files' = [uploaded_files EXCEPT ![idx] = FileAfterRead(@)]
    /\ idx' = idx + 1
    /\ UNCHANGED <<combined_df, ipc, storeVars, uiVars>>

\* if all_dataframes: return pd.concat(..) else: return pd.DataFrame()
IngestReturn ==
    /\ ipc = "loop"
    /\ idx > Len(uploaded_files)
    /\ combined_df' = Concat(all_dataframes)
    /\ ipc' = "done"
    /\ UNCHANGED <<uploaded_files, idx, all_dataframes, processing_errors, storeVars, uiVars>>

NextIngest == IngestLoop \/ IngestReturn

SpecIngest == InitIngest /\ [][NextIngest]_vars

\* ------------------------------------------------------------------------
\* Claims about the ingestion pipeline (SpecIngest).
\* ------------------------------------------------------------------------
\* The file as it was uploaded, before process_instance_data read it.
Unread(file) == [file EXCEPT !.pos = 0]
Range(seq) == {seq[i] : i \in 1..Len(seq)}

\* Whether validation or flattening fails on the uploaded file, and with
\* which message.
FileFails(file) ==
    LET v == load_and_validate_json(file) IN ~v.ok \/ ~Flatten(v.data).ok
FailureMessage(file) ==
    LET v == load_and_validate_json(file) IN
    IF ~v.ok THEN v.msg ELSE Flatten(v.data).msg
AppsOf(file) == load_and_validate_json(file).data.f.applications.items
DocOf(file) == load_and_validate_json(file).data

\* The number of rows the files before position i contribute.
RECURSIVE Offset(_, _)
Offset(files, i) ==
    IF i <= 1 THEN 0
    ELSE Offset(files, i - 1)
         + (IF FileFails(Unread(files[i - 1])) THEN 0
            ELSE Len(AppsOf(Unread(files[i - 1]))))

\* C1: when process_instance_data has returned, every file of the batch was
\* read; a file that fails validation or flattening has its entry
\* "Error processing {name}: {message}" in processing_errors and no row in
\* the result (there are as many entries as failing files and as many rows
\* as the other files have applications); every file that does not fail,
\* also after a failing one, has its rows in the result.
C1_FailureNeverAborts ==
    ipc = "done" =>
        \A i \in 1..Len(uploaded_files) :
            LET f == Unread(uploaded_files[i]) IN
            /\ uploaded_files[i].pos = 1
            /\ FileFails(f) =>
                  ("Error processing " \o f.name \o ": " \o FailureMessage(f))
                      \in Range(processing_errors)
            /\ ~FileFails(f) =>
                  \A j \in 1..Len(AppsOf(f)) :
                      AppInfo(DocOf(f), AppsOf(f)[j]) \in Range(combined_df)
            /\ Len(processing_errors)
                  = Cardinality({k \in 1..Len(uploaded_files) :
                                    FileFails(Unread(uploaded_files[k]))})
            /\ Len(combined_df) = Offset(uploaded_files, Len(uploaded_files) + 1)

\* Witness of C1: a batch whose first file fails and whose last file is
\* valid has been processed, with the error recorded and the rows present.
C1_Witness ==
    /\ ipc = "done"
    /\ Len(uploaded_files) = 3
    /\ FileFails(Unread(uploaded_files[1]))
    /\ FileFails(Unread(uploaded_files[2]))
    /\ ~FileFails(Unread(uploaded_files[3]))
    /\ Len(processing_errors) = 2
    /\ Len(combined_df) = Len(AppsOf(Unread(uploaded_files[3])))
    /\ combined_df # <<>>

\* C2: the returned dataset has as many rows as the files that did not error
\* have applications; the rows of file i start after the rows of the files
\* before it and are in application order; nothing is deduplicated.
C2_RowsInFileAndAppOrder ==
    ipc = "done" =>
        /\ Len(combined_df) = Offset(uploaded_files, Len(uploaded_files) + 1)
        /\ \A i \in 1..Len(uploaded_files) :
              LET f == Unread(uploaded_files[i]) IN
              ~FileFails(f) =>
                  \A j \in 1..Len(AppsOf(f)) :
                      combined_df[Offset(uploaded_files, i) + j]
                          = AppInfo(DocOf(f), AppsOf(f)[j])

\* Witness of C2: a failing file sits between two uploads of the same valid
\* document, whose equal rows are all kept.
C2_Witness ==
    /\ ipc = "done"
    /\ Len(uploaded_files) = 3
    /\ ~FileFails(Unread(uploaded_files[1]))
    /\ FileFails(Unread(uploaded_files[2]))
    /\ uploaded_files[3].content = uploaded_files[1].content
    /\ Len(combined_df) = 2 * Len(AppsOf(Unread(uploaded_files[1])))
    /\ combined_df[1] = combined_df[Len(AppsOf(Unread(uploaded_files[1]))) + 1]

\* ------------------------------------------------------------------------
\* json.dumps and json.loads.  A JSON text is the sequence of its tokens;
\* json_loads is a recursive-descent parser of that sequence.
\* ------------------------------------------------------------------------
JNull == [t |-> "null"]
Tok(k, s, n) == [k |-> k, s |-> s, n |-> n]
Punct(k) == Tok(k, "", 0)

\* The keys of a dict, in the order the dict is iterated.
RECURSIVE KeyOrder(_)
KeyOrder(S) ==
    IF S = {} THEN <<>>
    ELSE LET k == CHOOSE x \in S : TRUE IN <<k>> \o KeyOrder(S \ {k})

RECURSIVE json_dumps(_), DumpItems(_), DumpPairs(_, _)
json_dumps(v) ==
    CASE v.t = "null" -> <<Punct("null")>>
      [] v.t = "str"  -> <<Tok("str", v.s, 0)>>
      [] v.t = "num"  -> <<Tok("num", "", v.n)>>
      [] v.t = "list" -> <<Punct("[")>> \o DumpItems(v.items) \o <<Punct("]")>>
      [] v.t = "obj"  -> <<Punct("{")>> \o DumpPairs(v.f, KeyOrder(DOMAIN v.f)) \o <<Punct("}")>>
DumpItems(items) ==
    IF items = <<>> THEN <<>>
    ELSE json_dumps(Head(items))
         \o (IF Len(items) > 1 THEN <<Punct(",")>> \o DumpItems(Tail(items)) ELSE <<>>)
DumpPairs(f, keys) ==
    IF keys = <<>> THEN <<>>
    ELSE <<Tok("str", Head(keys), 0), Punct(":")>> \o json_dumps(f[Head(keys)])
         \o (IF Len(keys) > 1 THEN <<Punct(",")>> \o DumpPairs(f, Tail(keys)) ELSE <<>>)

\* The parsers return the value and the index of the token after it.
RECURSIVE ParseValue(_, _), ParseItems(_, _, _), ParsePairs(_, _, _)
ParseValue(toks, i) ==
    CASE toks[i].k = "null" -> [v |-> JNull, next |-> i + 1]
      [] toks[i].k = "str"  -> [v |-> JStr(toks[i].s), next |-> i + 1]
      [] toks[i].k = "num"  -> [v |-> JNum(toks[i].n), next |-> i + 1]
      [] toks[i].k = "["    ->
            IF toks[i + 1].k = "]" THEN [v |-> JList(<<>>), next |-> i + 2]
            ELSE ParseItems(toks, i + 1, <<>>)
      [] toks[i].k = "{"    ->
            IF toks[i + 1].k = "}" THEN [v |-> JObj(<<>>), next |-> i + 2]
            ELSE ParsePairs(toks, i + 1, <<>>)
ParseItems(toks, i, acc) ==
    LET r == ParseValue(toks, i) IN
    IF toks[r.next].k = "," THEN ParseItems(toks, r.next + 1, Append(acc, r.v))
    ELSE [v |-> JList(Append(acc, r.v)), next |-> r.next + 1]
ParsePairs(toks, i, acc) ==
    LET r == ParseValue(toks, i + 2)
        key == toks[i].s
        acc2 == [k \in DOMAIN acc \cup {key} |-> IF k = key THEN r.v ELSE acc[k]]
    IN  IF toks[r.next].k = "," THEN ParsePairs(toks, r.next + 1, acc2)
        ELSE [v |-> JObj(acc2), next |-> r.next + 1]
json_loads(text) == ParseValue(text, 1).v

\* Python truthiness of a value, and `value or default`.
Falsy(v) ==
    \/ v.t = "null"
    \/ v.t = "str" /\ v.s = ""
    \/ v.t = "num" /\ v.n = 0
    \/ v.t = "list" /\ v.items = <<>>
    \/ v.t = "obj" /\ DOMAIN v.f = {}
OrElse(v, default) == IF Falsy(v) THEN default ELSE v

\* datetime.now().strftime("%Y-%m-%d %H:%M:%S") at second t of the model's clock.
Strftime(t) == "2025-01-01 00:00:0" \o ToString(t)

\* ------------------------------------------------------------------------
\* The SQLite database.  db is the committed content of dashboard_data.db:
\* whether the file exists, the tables that were created, and their rows in
\* rowid order.  The id and created_at columns of application_data, which
\* SQLite fills in, are left out of its rows.  A statement returns
\* [ok, d]: the database after it, or ok = FALSE when it raises
\* sqlite3.OperationalError (no such table).
\* ------------------------------------------------------------------------
Done(d) == [ok |-> TRUE, d |-> d]
Fails(d) == [ok |-> FALSE, d |-> d]

\* sqlite3.connect creates the file when it is not there.
Connect(d) == [d EXCEPT !.exists = TRUE]

\* init_database: CREATE TABLE IF NOT EXISTS application_data, user_tables.
init_database(d) ==
    [Connect(d) EXCEPT !.tables = @ \cup {"application_data", "user_tables"}]

\* DELETE FROM <table>
SqlDeleteAll(d, table) ==
    IF table \notin d.tables THEN Fails(d) ELSE Done([d EXCEPT ![table] = <<>>])

\* row.get(key, '')
RowGet(row, key) == IF key \in DOMAIN row THEN row[key] ELSE ""

\* INSERT INTO application_data (instance_id, instance_name, app_name,
\* app_type, app_status, app_image, ports) VALUES (..)
StoredRow(row) ==
    [instance_id   |-> RowGet(row, "instance_id"),
     instance_name |-> RowGet(row, "instance_name"),
     app_name      |-> RowGet(row, "app_name"),
     app_type      |-> RowGet(row, "app_type"),
     app_status    |-> RowGet(row, "app_status"),
     app_image     |-> RowGet(row, "app_image"),
     ports         |-> RowGet(row, "ports")]
SqlInsertAppRow(d, row) ==
    [d EXCEPT !.application_data = Append(@, StoredRow(row))]

\* for _, row in df.iterrows(): cursor.execute(INSERT ..)
RECURSIVE InsertAll(_, _)
InsertAll(d, df) ==
    IF df = <<>> THEN d ELSE InsertAll(SqlInsertAppRow(d, Head(df)), Tail(df))

\* A save that does not clear the existing data first.
SaveStartKeep(d) ==
    IF "application_data" \notin Connect(d).tables THEN Fails(Connect(d))
    ELSE Done(Connect(d))

\* save_data_to_db up to its first statement: connect, DELETE FROM
\* application_data.  The statement opens the connection's transaction.
SaveStart(d) == SqlDeleteAll(Connect(d), "application_data")

\* What closing a connection without commit leaves of its transaction w
\* in the committed database d: nothing.  RollbackKeep leaves all of it.
RollbackKeep(d, w) == w
Rollback(d, w) == d

\* conn.commit()
Commit(d, w) == w

\* What another connection reads while a transaction w is open on the
\* committed database d.  ReaderViewDirty reads the uncommitted rows.
ReaderViewDirty(d, w) == w
ReaderView(d, w) == d

\* save_data_to_db, from connect to commit: the committed database after it
\* and whether it returned True.
save_data_to_db(d, df) ==
    LET del == SaveStart(d) IN
    IF ~del.ok THEN Fails(Rollback(Connect(d), del.d))
    ELSE Done(Commit(Connect(d), InsertAll(del.d, df)))

\* safe_convert_ports: the stored strings that start with '[' and end with
\* ']' and what json.loads makes of them.
BracketedText == {"[80, 443]", "[80, tcp]", "[]"}
PortsJson(x) ==
    IF x = "[80, 443]" THEN Ok(<<JNum(80), JNum(443)>>)
    ELSE IF x = "[]" THEN Ok(<<>>)
    ELSE Raise("Expecting value")

\* A conversion that hands back the stored text when it cannot be parsed.
SafeConvertPortsKeep(x) ==
    IF x \in {"", "nan", "None"} THEN ""
    ELSE IF x \in BracketedText /\ PortsJson(x).ok
        THEN Join([i \in 1..Len(PortsJson(x).data) |-> PyStr(PortsJson(x).data[i])])
    ELSE x

safe_convert_ports(x) ==
    IF x \in {"", "nan", "None"} THEN ""
    ELSE IF x \in BracketedText
        THEN IF PortsJson(x).ok
                 THEN Join([i \in 1..Len(PortsJson(x).data) |-> PyStr(PortsJson(x).data[i])])
                 ELSE ""
    ELSE x

\* load_data_from_db: SELECT * FROM application_data, then ports converted.
\* Without the file, and on any exception, the empty DataFrame.
load_data_from_db(d) ==
    IF ~d.exists \/ "application_data" \notin d.tables THEN <<>>
    ELSE [i \in 1..Len(d.application_data) |->
             [d.application_data[i] EXCEPT !.ports = safe_convert_ports(@)]]

\* clear_database: DELETE FROM application_data; DELETE FROM user_tables;
\* commit.  Without the file it returns None, which is not true.
clear_database(d) ==
    IF ~d.exists THEN Fails(d)
    ELSE LET a == SqlDeleteAll(d, "application_data") IN
         IF ~a.ok THEN Fails(d)
         ELSE LET b == SqlDeleteAll(a.d, "user_tables") IN
              IF ~b.ok THEN Fails(d) ELSE b

\* The rows of a table that are not keyed by name.
Without(rows, name) == SelectSeq(rows, LAMBDA r : r.table_name # name)
Names(rows) == {rows[i].table_name : i \in 1..Len(rows)}

EmptyDictText == json_dumps(JObj(<<>>))

\* INSERT OR IGNORE: a row of the same name stays as it is.
SaveUserTableIgnore(d, table_name, columns, filters, custom_columns, now) ==
    IF "user_tables" \notin Connect(d).tables THEN Fails(Connect(d))
    ELSE IF table_name \in Names(d.user_tables)
        THEN Done([Connect(d) EXCEPT !.has_custom_columns = TRUE])
    ELSE Done([Connect(d) EXCEPT
                 !.has_custom_columns = TRUE,
                 !.user_tables =
                     Append(@, [table_name |-> table_name,
                                columns |-> json_dumps(columns),
                                filters |-> json_dumps(filters),
                                custom_columns |-> json_dumps(OrElse(custom_columns, JObj(<<>>))),
                                created_at |-> Strftime(now)])])

\* save_user_table_to_db: ALTER TABLE .. ADD COLUMN custom_columns when the
\* column is not there (the rows there get the default '{}'), then
\* INSERT OR REPLACE on the UNIQUE table_name.
save_user_table_to_db(d, table_name, columns, filters, custom_columns, now) ==
    IF "user_tables" \notin Connect(d).tables THEN Fails(Connect(d))
    ELSE LET altered ==
                 IF d.has_custom_columns THEN d.user_tables
                 ELSE [i \in 1..Len(d.user_tables) |->
                          [d.user_tables[i] EXCEPT !.custom_columns = EmptyDictText]]
         IN  Done([Connect(d) EXCEPT
                     !.has_custom_columns = TRUE,
                     !.user_tables =
                         Append(Without(altered, table_name),
                                [table_name |-> table_name,
                                 columns |-> json_dumps(columns),
                                 filters |-> json_dumps(filters),
                                 custom_columns |-> json_dumps(OrElse(custom_columns, JObj(<<>>))),
                                 created_at |-> Strftime(now)])])

\* The dict built by `for row in rows: user_tables[row[0]] = {..}`: a later
\* row of the same name overwrites an earlier one.
LastRow(rows, name) ==
    rows[CHOOSE i \in 1..Len(rows) :
            /\ rows[i].table_name = name
            /\ \A j \in 1..Len(rows) : rows[j].table_name = name => j <= i]

\* A load that always selects the custom_columns column: on a table
\* without it the SELECT raises, and the except branch returns {}.
LoadUserTablesNoFallback(d) ==
    IF ~d.exists \/ "user_tables" \notin d.tables \/ ~d.has_custom_columns THEN <<>>
    ELSE [n \in Names(d.user_tables) |->
             LET row == LastRow(d.user_tables, n) IN
             [columns |-> json_loads(row.columns),
              filters |-> json_loads(row.filters),
              custom_columns |->
                  IF row.custom_columns # <<>> THEN json_loads(row.custom_columns)
                  ELSE JObj(<<>>),
              created_at |-> row.created_at]]

\* load_user_tables_from_db.  Without the file, and on any exception, {}.
load_user_tables_from_db(d) ==
    IF ~d.exists \/ "user_tables" \notin d.tables THEN <<>>
    ELSE [n \in Names(d.user_tables) |->
             LET row == LastRow(d.user_tables, n) IN
             [columns |-> json_loads(row.columns),
              filters |-> json_loads(row.filters),
              custom_columns |->
                  IF d.has_custom_columns /\ row.custom_columns # <<>>
                      THEN json_loads(row.custom_columns) ELSE JObj(<<>>),
              created_at |-> row.created_at]]

\* delete_user_table_from_db: DELETE FROM user_tables WHERE table_name = ?
delete_user_table_from_db(d, table_name) ==
    IF "user_tables" \notin Connect(d).tables THEN Fails(Connect(d))
    ELSE Done([Connect(d) EXCEPT !.user_tables = Without(@, table_name)])

\* save_custom_table_to_db: CREATE TABLE IF NOT EXISTS custom_tables, then
\* INSERT OR REPLACE on the PRIMARY KEY table_name.
save_custom_table_to_db(d, table_name, table_data, now) ==
    Done([Connect(d) EXCEPT
            !.tables = @ \cup {"custom_tables"},
            !.custom_tables =
                Append(Without(@, table_name),
                       [table_name |-> table_name,
                        table_data |-> json_dumps(table_data),
                        created_at |-> Get(table_data, "created_at", JStr(Strftime(now))).s,
                        updated_at |-> Strftime(now)])])

\* load_custom_tables_from_db.  Without the file or the table, {}.
load_custom_tables_from_db(d) ==
    IF ~d.exists \/ "custom_tables" \notin d.tables THEN <<>>
    ELSE [n \in Names(d.custom_tables) |->
             json_loads(LastRow(d.custom_tables, n).table_data)]

\* delete_custom_table_from_db: DELETE FROM custom_tables WHERE table_name = ?
delete_custom_table_from_db(d, table_name) ==
    IF "custom_tables" \notin Connect(d).tables THEN Fails(Connect(d))
    ELSE Done([Connect(d) EXCEPT !.custom_tables = Without(@, table_name)])

\* ------------------------------------------------------------------------
\* Inputs of the persistence calls.
\* ------------------------------------------------------------------------
\* Rows as process_instance_data builds them.  The third has a ports string
\* that reads as a JSON array (its two ports are the strings "[80", "443]").
AppBracket == JObj([name |-> JStr("api"), ports |-> JList(<<JStr("[80"), JStr("443]")>>)])
DataRows == {AppInfo(DocOne, AppFull), AppInfo(DocTwo, AppMinimal), AppInfo(DocTwo, AppBracket)}
SeqsUpTo(S, n) == UNION {[1..m -> S] : m \in 0..n}
Datasets == SeqsUpTo(DataRows, MaxRows)

\* A store-level failure (disk I/O error) can hit any call.
IoOutcomes == {"ok", "error"}

\* main() calls init_database before anything else uses the store.
Initialised(d) == d.exists /\ {"application_data", "user_tables"} \subseteq d.tables

MkRet(op, ok, io, name, absent, same, value) ==
    [op |-> op, ok |-> ok, io |-> io, name |-> name, absent |-> absent,
     same |-> same, value |-> value]

IngestIdle ==
    /\ uploaded_files = <<>>
    /\ idx = 1
    /\ all_dataframes = <<>>
    /\ combined_df = <<>>
    /\ ipc = "done"
    /\ processing_errors = <<>>

\* ------------------------------------------------------------------------
\* SpecStore: the application-row table.  save_data_to_db runs statement by
\* statement on its connection; load_data_from_db, on a connection of its
\* own, can run between any two of them.
\* ------------------------------------------------------------------------
InitStore == IngestIdle /\ StoreIdle /\ UiIdle

StoreInitDatabase ==
    /\ ~conn.open
    /\ db' = init_database(db)
    /\ ret' = MkRet("init_database", TRUE, "ok", "", FALSE, db' = db, <<>>)
    /\ UNCHANGED <<conn, hist, clock, ingestVars, processing_errors, uiVars>>

\* conn = sqlite3.connect(db_path); cursor.execute('DELETE FROM application_data')
SaveBegin(df) ==
    /\ Initialised(db)
    /\ ~conn.open
    /\ conn' = [open |-> TRUE, work |-> SaveStart(db).d, todo |-> df, df |-> df]
    /\ hist' = [hist EXCEPT !.pre = db.application_data]
    /\ ret' = MkRet("save_data_to_db", FALSE, "ok", "running", FALSE, TRUE, <<>>)
    /\ UNCHANGED <<db, clock, ingestVars, processing_errors, uiVars>>

\* cursor.execute('INSERT INTO application_data ..') for the next row
SaveInsert ==
    /\ conn.open
    /\ conn.todo # <<>>
    /\ conn' = [conn EXCEPT !.work = SqlInsertAppRow(@, Head(conn.todo)),
                            !.todo = Tail(@)]
    /\ UNCHANGED <<db, ret, hist, clock, ingestVars, processing_errors, uiVars>>

\* conn.commit(); conn.close(); return True
SaveCommit ==
    /\ conn.open
    /\ conn.todo = <<>>
    /\ db' = Commit(db, conn.work)
    /\ conn' = NoConn
    /\ hist' = [hist EXCEPT !.saved = conn.df, !.wrote = "save"]
    /\ ret' = MkRet("save_data_to_db", TRUE, "ok", "returned", FALSE, db' = db, <<>>)
    /\ UNCHANGED <<clock, ingestVars, processing_errors, uiVars>>

\* An exception after the DELETE or after any INSERT: st.error, return
\* False; the connection goes away without a commit.
SaveFail ==
    /\ conn.open
    /\ db' = Rollback(db, conn.work)
    /\ conn' = NoConn
    /\ ret' = MkRet("save_data_to_db", FALSE, "error", "returned", FALSE, db' = db, <<>>)
    /\ UNCHANGED <<hist, clock, ingestVars, processing_errors, uiVars>>

\* load_data_from_db, also while a save is between two statements.
LoadData(io) ==
    /\ Initialised(db)
    /\ ret' = MkRet("load_data_from_db", io = "ok", io, "", FALSE, TRUE,
                    IF io = "ok"
                        THEN load_data_from_db(IF conn.open THEN ReaderView(db, conn.work) ELSE db)
                        ELSE <<>>)
    /\ UNCHANGED <<db, conn, hist, clock, ingestVars, processing_errors, uiVars>>

NextStore ==
    \/ StoreInitDatabase
    \/ \E df \in Datasets : SaveBegin(df)
    \/ SaveInsert
    \/ SaveCommit
    \/ SaveFail
    \/ \E io \in IoOutcomes : LoadData(io)

SpecStore == InitStore /\ [][NextStore]_vars

\* ------------------------------------------------------------------------
\* Claims about the application-row table (SpecStore).
\* ------------------------------------------------------------------------
RowAttributes ==
    {"instance_id", "instance_name", "script_version", "app_name", "app_type",
     "app_status", "app_image", "ports", "pids", "process_name", "container_id"}
StoredColumns ==
    {"instance_id", "instance_name", "app_name", "app_type", "app_status",
     "app_image", "ports"}

\* Two rows have the same attributes and the same values, the ports up to
\* their canonical formatting.
SameRow(a, b) ==
    /\ DOMAIN a = DOMAIN b
    /\ \A c \in DOMAIN a :
          IF c = "ports" THEN safe_convert_ports(a[c]) = safe_convert_ports(b[c])
          ELSE a[c] = b[c]

\* A load that returned normally while no save was in progress, after a
\* successful save as the last write.
LoadedAfterSave ==
    /\ ret.op = "load_data_from_db"
    /\ ret.io = "ok"
    /\ ~conn.open
    /\ hist.wrote = "save"

\* C3: a load after a save returns the saved rows: as many, in the same
\* order, each with the eleven attributes and the same values, the ports up
\* to their canonical formatting.
C3_RoundTrip ==
    LoadedAfterSave =>
        /\ Len(ret.value) = Len(hist.saved)
        /\ \A i \in 1..Len(ret.value) :
              /\ DOMAIN ret.value[i] = RowAttributes
              /\ SameRow(ret.value[i], hist.saved[i])

\* C4: the committed table holds exactly the rows of the last successful
\* save: as many rows, row i with the stored columns of the i-th saved row.
C4_SnapshotOverwrite ==
    hist.wrote = "save" =>
        /\ Len(db.application_data) = Len(hist.saved)
        /\ \A i \in 1..Len(hist.saved) :
              \A c \in StoredColumns : db.application_data[i][c] = hist.saved[i][c]

\* Witness of C4: a second save, of other and fewer rows, has replaced the
\* rows of a first one.
C4_Witness ==
    /\ ret.op = "save_data_to_db"
    /\ ret.ok
    /\ Len(hist.pre) = 2
    /\ Len(hist.saved) = 1
    /\ Len(db.application_data) = 1
    /\ db.application_data[1] # hist.pre[1]
    /\ db.application_data[1] # hist.pre[2]

\* The table as a load shows it when it holds the given stored rows.
ViewOf(stored) == load_data_from_db([db EXCEPT !.application_data = stored])

\* C5: a load that runs while a save is between two of its statements
\* returns the table as it was before the save or as it is after it.
C5_NoPartialOverwrite ==
    (conn.open /\ ret.op = "load_data_from_db" /\ ret.io = "ok") =>
        \/ ret.value = ViewOf(hist.pre)
        \/ ret.value = ViewOf([i \in 1..Len(conn.df) |-> StoredRow(conn.df[i])])

\* Witness of C5: the save has deleted the two old rows and inserted one of
\* its two new rows, and a load at this point returned the two old rows.
C5_Witness ==
    /\ conn.open
    /\ Len(hist.pre) = 2
    /\ Len(conn.df) = 2
    /\ Len(conn.work.application_data) = 1
    /\ conn.work.application_data[1] # hist.pre[1]
    /\ ret.op = "load_data_from_db"
    /\ ret.io = "ok"
    /\ Len(ret.value) = 2
    /\ ret.value = ViewOf(hist.pre)

\* C6: a save that failed has returned False and left the committed table
\* as it was before the call.
C6_FailedSaveChangesNothing ==
    (ret.op = "save_data_to_db" /\ ret.io = "error") =>
        /\ ~ret.ok
        /\ ret.same
        /\ db.application_data = hist.pre

\* Witness of C6: a save of two rows over a table of one row failed.
C6_Witness ==
    /\ ret.op = "save_data_to_db"
    /\ ret.io = "error"
    /\ ~ret.ok
    /\ Len(hist.pre) = 1
    /\ Len(db.application_data) = 1
    /\ ~conn.open

\* ------------------------------------------------------------------------
\* SpecUserTables and SpecCustomTables: the functions of the two stores of
\* named tables, init_database and clear_database, called in any order.
\* ------------------------------------------------------------------------
UserConfigs ==
    {[columns |-> JList(<<JStr("app_name"), JStr("app_type")>>),
      filters |-> JObj([app_type |-> JStr("docker")]),
      custom_columns |-> JObj([notes |-> JStr("todo")])],
     [columns |-> JList(<<JStr("instance_name")>>),
      filters |-> JObj(<<>>),
      custom_columns |-> JNull]}

\* A grid of two columns and one row, as the editor holds it; created_at is
\* there when the table was created in the user interface at second t.
Grid(cell) ==
    [columns |-> JList(<<JStr("a"), JStr("b")>>),
     data |-> JList(<<JList(<<JStr(cell), JStr("")>>)>>)]
GridAt(cell, t) ==
    [columns |-> JList(<<JStr("a"), JStr("b")>>),
     data |-> JList(<<JList(<<JStr(cell), JStr("")>>)>>),
     created_at |-> JStr(Strftime(t))]
TableDatas(now) == {JObj(Grid("x"))} \cup {JObj(GridAt("y", t)) : t \in 1..now}

Tick ==
    /\ clock < MaxTime
    /\ clock' = clock + 1
    /\ UNCHANGED <<db, conn, ret, hist, ingestVars, processing_errors, uiVars>>

\* The effect of a call that writes: res is what the function does when the
\* store works; a store-level failure makes it return False and write nothing.
Written(op, name, absent, res, io) ==
    /\ db' = IF io = "ok" THEN res.d ELSE db
    /\ ret' = MkRet(op, io = "ok" /\ res.ok, io, name, absent, db' = db, <<>>)

ClearCall(io) ==
    /\ Initialised(db)
    /\ Written("clear_database", "", FALSE, clear_database(db), io)
    /\ hist' = IF ret'.ok
                   THEN [hist EXCEPT !.cfg = [n \in TableNames |->
                            IF hist.cfg[n].present THEN Deleted ELSE hist.cfg[n]]]
                   ELSE hist
    /\ UNCHANGED <<conn, clock, ingestVars, processing_errors, uiVars>>

SaveUserTableCall(name, cfg, io) ==
    /\ Initialised(db)
    /\ Written("save_user_table_to_db", name, name \notin Names(db.user_tables),
               save_user_table_to_db(db, name, cfg.columns, cfg.filters,
                                     cfg.custom_columns, clock), io)
    /\ hist' = IF ret'.ok
                   THEN [hist EXCEPT !.cfg[name] =
                            [present |-> TRUE, replaced |-> hist.cfg[name].present,
                             columns |-> cfg.columns,
                             filters |-> cfg.filters,
                             custom_columns |-> cfg.custom_columns]]
                   ELSE hist
    /\ UNCHANGED <<conn, clock, ingestVars, processing_errors, uiVars>>

LoadUserTablesCall(io) ==
    /\ Initialised(db)
    /\ ret' = MkRet("load_user_tables_from_db", io = "ok", io, "", FALSE, TRUE,
                    IF io = "ok" THEN load_user_tables_from_db(db) ELSE <<>>)
    /\ UNCHANGED <<db, conn, hist, clock, ingestVars, processing_errors, uiVars>>

DeleteUserTableCall(name, io) ==
    /\ Initialised(db)
    /\ Written("delete_user_table_from_db", name, name \notin Names(db.user_tables),
               delete_user_table_from_db(db, name), io)
    /\ hist' = IF ret'.ok /\ hist.cfg[name].present
                   THEN [hist EXCEPT !.cfg[name] = Deleted] ELSE hist
    /\ UNCHANGED <<conn, clock, ingestVars, processing_errors, uiVars>>

NextUserTables ==
    \/ StoreInitDatabase
    \/ Tick
    \/ \E io \in IoOutcomes : ClearCall(io)
    \/ \E name \in TableNames, cfg \in UserConfigs, io \in IoOutcomes :
          SaveUserTableCall(name, cfg, io)
    \/ \E io \in IoOutcomes : LoadUserTablesCall(io)
    \/ \E name \in TableNames, io \in IoOutcomes : DeleteUserTableCall(name, io)

SpecUserTables == InitStore /\ [][NextUserTables]_vars

\* save_data_to_db as one call (no reader in between).
SaveDataCall(df, io) ==
    /\ Initialised(db)
    /\ Written("save_data_to_db", "returned", FALSE, save_data_to_db(db, df), io)
    /\ hist' = IF ret'.ok THEN [hist EXCEPT !.saved = df, !.wrote = "save"] ELSE hist
    /\ UNCHANGED <<conn, clock, ingestVars, processing_errors, uiVars>>

SaveCustomTableCall(name, table_data, io) ==
    /\ Initialised(db)
    /\ Written("save_custom_table_to_db", name, name \notin Names(db.custom_tables),
               save_custom_table_to_db(db, name, table_data, clock), io)
    /\ hist' = IF ret'.ok THEN [hist EXCEPT !.custom[name] = table_data] ELSE hist
    /\ UNCHANGED <<conn, clock, ingestVars, processing_errors, uiVars>>

LoadCustomTablesCall(io) ==
    /\ Initialised(db)
    /\ ret' = MkRet("load_custom_tables_from_db", io = "ok", io, "", FALSE, TRUE,
                    IF io = "ok" THEN load_custom_tables_from_db(db) ELSE <<>>)
    /\ UNCHANGED <<db, conn, hist, clock, ingestVars, processing_errors, uiVars>>

DeleteCustomTableCall(name, io) ==
    /\ Initialised(db)
    /\ Written("delete_custom_table_from_db", name, name \notin Names(db.custom_tables),
               delete_custom_table_from_db(db, name), io)
    /\ hist' = IF ret'.ok THEN [hist EXCEPT !.custom[name] = JNull] ELSE hist
    /\ UNCHANGED <<conn, clock, ingestVars, processing_errors, uiVars>>

NextCustomTables ==
    \/ StoreInitDatabase
    \/ Tick
    \/ \E io \in IoOutcomes : ClearCall(io)
    \/ \E io \in IoOutcomes : SaveDataCall(<<AppInfo(DocOne, AppFull)>>, io)
    \/ \E io \in IoOutcomes :
          SaveUserTableCall("t1", CHOOSE cfg \in UserConfigs : cfg.custom_columns = JNull, io)
    \/ \E name \in TableNames, io \in IoOutcomes :
          \E table_data \in TableDatas(clock) : SaveCustomTableCall(name, table_data, io)
    \/ \E io \in IoOutcomes : LoadCustomTablesCall(io)
    \/ \E name \in TableNames, io \in IoOutcomes :
          \/ DeleteCustomTableCall(name, io)
          \/ DeleteUserTableCall(name, io)

SpecCustomTables == InitStore /\ [][NextCustomTables]_vars

\* ------------------------------------------------------------------------
\* Claims about clear_database and the stores of named tables.
\* ------------------------------------------------------------------------
\* C7: after clear_database has returned True the three record sets are
\* empty: application rows, user table configurations, custom tables.
C7_ClearEmptiesAllThree ==
    (ret.op = "clear_database" /\ ret.ok) =>
        /\ db.application_data = <<>>
        /\ db.user_tables = <<>>
        /\ db.custom_tables = <<>>

\* C9: a delete of a table_name that is not in its store returns True and
\* leaves the store as it was (unless the store itself fails).
C9_DeleteOfMissingNameSucceeds ==
    (/\ ret.op \in {"delete_user_table_from_db", "delete_custom_table_from_db"}
     /\ ret.io = "ok"
     /\ ret.absent) =>
        /\ ret.ok
        /\ ret.same

\* C10: the user_tables table holds at most one row per table_name, and
\* load_user_tables_from_db returns a configuration for exactly the names
\* whose last successful save was not followed by a delete, with the
\* columns, the filters and the custom_columns of that save (custom_columns
\* left out of the call reads as the empty mapping).
C10_InsertOrReplaceByName ==
    /\ \A i, j \in 1..Len(db.user_tables) :
          i # j => db.user_tables[i].table_name # db.user_tables[j].table_name
    /\ (ret.op = "load_user_tables_from_db" /\ ret.io = "ok") =>
          /\ DOMAIN ret.value = {n \in TableNames : hist.cfg[n].present}
          /\ \A n \in DOMAIN ret.value :
                /\ ret.value[n].columns = hist.cfg[n].columns
                /\ ret.value[n].filters = hist.cfg[n].filters
                /\ ret.value[n].custom_columns =
                      (IF hist.cfg[n].custom_columns = JNull THEN JObj(<<>>)
                       ELSE hist.cfg[n].custom_columns)

\* Witness of C10: a load returned t1, whose last save replaced an earlier
\* one with custom columns, and not t2, which was saved and then deleted.
C10_Witness ==
    /\ ret.op = "load_user_tables_from_db"
    /\ ret.io = "ok"
    /\ DOMAIN ret.value = {"t1"}
    /\ hist.cfg["t1"].present
    /\ hist.cfg["t1"].replaced
    /\ ret.value["t1"].custom_columns = JObj([notes |-> JStr("todo")])
    /\ ret.value["t1"].columns = JList(<<JStr("app_name"), JStr("app_type")>>)
    /\ hist.cfg["t2"] = Deleted

\* ------------------------------------------------------------------------
\* Spec: the script runs of main().  Every user interaction runs the script
\* from the top with the pressed widget returning True; st.rerun() ends the
\* run and starts another one in which no widget is pressed.
\* ------------------------------------------------------------------------
\* process_instance_data(uploaded_files) as a whole call of its body: what
\* the loop does with each file, then the returned DataFrame and the entries
\* appended to processing_errors, both in file order.
PerFile(files) == [i \in 1..Len(files) |-> ProcessFile(files[i])]
process_instance_data(files) ==
    [df |-> Concat([i \in 1..Len(files) |-> Concat(PerFile(files)[i].dfs)]),
     errs |-> Concat([i \in 1..Len(files) |-> PerFile(files)[i].errs])]

\* What the uploader can hold.
UiBatches ==
    {<<>>,
     <<NewFile(1, JsonText(DocOne))>>,
     <<NewFile(1, EmptyBytes)>>,
     <<NewFile(1, JsonText(DocTwo)), NewFile(2, JsonText(Doc(JStr("i-3"), JStr("web"), JList(<<>>))))>>}

\* The state a run has reached: the store, the session, the error list, the
\* cache, whether st.rerun() has ended the run, and the calls made so far.
RunStart ==
    [db |-> init_database(db), s |-> session, errs |-> processing_errors,
     cache |-> ui.cache, stop |-> FALSE, did |-> {}]

Loaded(d, io) == IF io = "ok" THEN load_data_from_db(d) ELSE <<>>

\* if st.button("Load from Database"): ..
LoadClick(st, io) ==
    LET db_data == Loaded(st.db, io) IN
    IF db_data # <<>>
        THEN [st EXCEPT !.s.has_data = TRUE, !.s.processed_data = db_data,
                        !.s.data_loaded = TRUE, !.stop = TRUE,
                        !.did = @ \cup {"load_data_from_db"}]
        ELSE [st EXCEPT !.did = @ \cup {"load_data_from_db"}]

\* if st.button("Save to Database"): ..
SaveClick(st, io) ==
    IF st.s.has_data /\ st.s.processed_data # <<>>
        THEN [st EXCEPT !.db = IF io = "ok" THEN save_data_to_db(@, st.s.processed_data).d
                               ELSE @,
                        !.did = @ \cup {"save_data_to_db"}]
        ELSE st

\* A Clear Database button that clears on the first click.
ClearClickUnconfirmed(st, io) ==
    LET r == IF io = "ok" THEN clear_database(st.db) ELSE Fails(st.db) IN
    IF r.ok
        THEN [st EXCEPT !.db = r.d,
                        !.s = [has_data |-> FALSE, processed_data |-> <<>>,
                               data_loaded |-> FALSE, confirm_clear |-> FALSE],
                        !.stop = TRUE,
                        !.did = @ \cup {"clear_database", "clear_database:ok"}]
        ELSE [st EXCEPT !.did = @ \cup {"clear_database"}]

\* if st.button("Clear Database"): the first click sets confirm_clear and
\* reruns; a click that finds it set calls clear_database and, when that
\* returned True, drops processed_data and resets both flags.
\* ('user_tables' is never put into the session state.)
ClearClick(st, io) ==
    IF st.s.confirm_clear
        THEN LET r == IF io = "ok" THEN clear_database(st.db) ELSE Fails(st.db) IN
             IF r.ok
                 THEN [st EXCEPT !.db = r.d,
                                 !.s = [has_data |-> FALSE, processed_data |-> <<>>,
                                        data_loaded |-> FALSE, confirm_clear |-> FALSE],
                                 !.stop = TRUE,
                                 !.did = @ \cup {"clear_database", "clear_database:ok"}]
                 ELSE [st EXCEPT !.did = @ \cup {"clear_database"}]
        ELSE [st EXCEPT !.s.confirm_clear = TRUE, !.stop = TRUE]

\* The database-management expander: the handler of the pressed button.
Buttons(st, w, io) ==
    CASE w = "load"  -> LoadClick(st, io)
      [] w = "save"  -> SaveClick(st, io)
      [] w = "clear" -> ClearClick(st, io)
      [] OTHER       -> st

\* An auto-load that stores the loaded rows and leaves data_loaded unset.
AutoLoadNoFlag(st, io) ==
    IF st.stop \/ st.s.data_loaded \/ st.s.has_data THEN st
    ELSE LET db_data == Loaded(st.db, io) IN
         IF db_data # <<>>
             THEN [st EXCEPT !.s.has_data = TRUE, !.s.processed_data = db_data,
                             !.did = @ \cup {"auto_load"}]
             ELSE [st EXCEPT !.did = @ \cup {"auto_load"}
                                       \cup (IF io = "ok" THEN {} ELSE {"auto_load:failed"})]

\* Auto-load from database on startup if no data is loaded.
AutoLoad(st, io) ==
    IF st.stop \/ st.s.data_loaded \/ st.s.has_data THEN st
    ELSE LET db_data == Loaded(st.db, io) IN
         IF db_data # <<>>
             THEN [st EXCEPT !.s.has_data = TRUE, !.s.processed_data = db_data,
                             !.s.data_loaded = TRUE,
                             !.did = @ \cup {"auto_load"}]
             ELSE [st EXCEPT !.did = @ \cup {"auto_load"}
                                       \cup (IF io = "ok" THEN {} ELSE {"auto_load:failed"})]

\* A Reload Data that resets data_loaded and keeps processed_data.
UploadSectionKeepData(st, files, w, expired, io) ==
    IF st.stop THEN st
    ELSE IF files # <<>> /\ ~st.s.data_loaded
        THEN LET hit == files \in st.cache /\ ~expired
                 res == process_instance_data(files)
                 st1 == [st EXCEPT !.errs = IF hit THEN <<>> ELSE res.errs,
                                   !.cache = @ \cup {files},
                                   !.did = @ \cup {IF hit THEN "ingest:cached" ELSE "ingest:body"}]
             IN  IF res.df # <<>>
                     THEN [st1 EXCEPT !.s.has_data = TRUE, !.s.processed_data = res.df,
                                      !.s.data_loaded = TRUE,
                                      !.db = IF io = "ok" THEN save_data_to_db(@, res.df).d ELSE @,
                                      !.did = @ \cup {"save_data_to_db"},
                                      !.stop = TRUE]
                     ELSE st1
    ELSE IF files # <<>> /\ st.s.data_loaded /\ w = "reload"
        THEN [st EXCEPT !.s.data_loaded = FALSE, !.stop = TRUE]
    ELSE st

\* An upload block that saves the ingested dataset also when it is empty.
UploadSectionSaveAlways(st, files, w, expired, io) ==
    IF st.stop THEN st
    ELSE IF files # <<>> /\ ~st.s.data_loaded
        THEN LET hit == files \in st.cache /\ ~expired
                 res == process_instance_data(files)
                 st1 == [st EXCEPT !.errs = IF hit THEN <<>> ELSE res.errs,
                                   !.cache = @ \cup {files},
                                   !.did = @ \cup {IF hit THEN "ingest:cached" ELSE "ingest:body"}]
             IN  IF res.df # <<>>
                     THEN [st1 EXCEPT !.s.has_data = TRUE, !.s.processed_data = res.df,
                                      !.s.data_loaded = TRUE,
                                      !.db = IF io = "ok" THEN save_data_to_db(@, res.df).d ELSE @,
                                      !.did = @ \cup {"save_data_to_db"},
                                      !.stop = TRUE]
                     ELSE [st1 EXCEPT !.db = IF io = "ok" THEN save_data_to_db(@, res.df).d ELSE @,
                                      !.did = @ \cup {"save_data_to_db"}]
    ELSE IF files # <<>> /\ st.s.data_loaded /\ w = "reload"
        THEN [st EXCEPT !.s.data_loaded = FALSE, !.s.has_data = FALSE,
                        !.s.processed_data = <<>>, !.stop = TRUE]
    ELSE st

\* The upload expander.  process_instance_data is behind st.cache_data: a
\* call with a key the cache holds (and that has not expired) returns the
\* stored DataFrame and does not run the body.
UploadSection(st, files, w, expired, io) ==
    IF st.stop THEN st
    ELSE IF files # <<>> /\ ~st.s.data_loaded
        THEN LET hit == files \in st.cache /\ ~expired
                 res == process_instance_data(files)
                 st1 == [st EXCEPT !.errs = IF hit THEN <<>> ELSE res.errs,
                                   !.cache = @ \cup {files},
                                   !.did = @ \cup {IF hit THEN "ingest:cached" ELSE "ingest:body"}]
             IN  IF res.df # <<>>
                     THEN [st1 EXCEPT !.s.has_data = TRUE, !.s.processed_data = res.df,
                                      !.s.data_loaded = TRUE,
                                      !.db = IF io = "ok" THEN save_data_to_db(@, res.df).d ELSE @,
                                      !.did = @ \cup {"save_data_to_db"},
                                      !.stop = TRUE]
                     ELSE st1
    ELSE IF files # <<>> /\ st.s.data_loaded /\ w = "reload"
        THEN [st EXCEPT !.s.data_loaded = FALSE, !.s.has_data = FALSE,
                        !.s.processed_data = <<>>, !.stop = TRUE]
    ELSE st

\* One run of main() with widget w pressed and the uploader holding files.
MainRun(w, files, ioButton, ioAuto, ioSave, expired) ==
    \E st0 \in {RunStart} :
    \E st1 \in {Buttons(st0, w, ioButton)} :
    \E st2 \in {AutoLoad(st1, ioAuto)} :
    \E st \in {UploadSection(st2, files, w, expired, ioSave)} :
        /\ db' = st.db
        /\ session' = st.s
        /\ processing_errors' = st.errs
        /\ uploaded_files' = files
        /\ ui' = [rerun |-> st.stop, last |-> w, did |-> st.did, cache |-> st.cache]
        /\ UNCHANGED <<idx, all_dataframes, combined_df, ipc, conn, ret, hist, clock, editor>>

\* The first run of a session, and every run st.rerun() starts.
ScriptRun ==
    /\ ui.last = "start" \/ ui.rerun
    /\ \E ioAuto \in IoOutcomes, ioSave \in IoOutcomes, expired \in BOOLEAN :
          MainRun("run", uploaded_files, "ok", ioAuto, ioSave, expired)

Idle == ui.last # "start" /\ ~ui.rerun

\* The user changes the files in the uploader.
Upload(files) ==
    /\ Idle
    /\ files # uploaded_files
    /\ \E ioAuto \in IoOutcomes, ioSave \in IoOutcomes, expired \in BOOLEAN :
          MainRun("upload", files, "ok", ioAuto, ioSave, expired)

\* The user presses one of the three database buttons.
ClickButton(w) ==
    /\ Idle
    /\ \E ioButton \in IoOutcomes, ioAuto \in IoOutcomes, ioSave \in IoOutcomes,
          expired \in BOOLEAN :
          MainRun(w, uploaded_files, ioButton, ioAuto, ioSave, expired)

\* The user presses Reload Data, which the last run has drawn.
ClickReload ==
    /\ Idle
    /\ uploaded_files # <<>>
    /\ session.data_loaded
    /\ \E ioAuto \in IoOutcomes :
          MainRun("reload", uploaded_files, "ok", ioAuto, "ok", FALSE)

\* Any other interaction (navigation, a filter): a run with none of the
\* widgets above pressed.
OtherInteraction ==
    /\ Idle
    /\ \E ioAuto \in IoOutcomes, ioSave \in IoOutcomes, expired \in BOOLEAN :
          MainRun("other", uploaded_files, "ok", ioAuto, ioSave, expired)

Init == IngestIdle /\ StoreIdle /\ UiIdle

Next ==
    \/ ScriptRun
    \/ \E files \in UiBatches : Upload(files)
    \/ \E w \in {"load", "save", "clear"} : ClickButton(w)
    \/ ClickReload
    \/ OtherInteraction

Spec == Init /\ [][Next]_vars

\* C8: Clear Database needs two clicks.  clear_database is called only in a
\* run in which Clear Database was pressed and confirm_clear was already
\* set; confirm_clear is set by nothing but a click on that button; a click
\* that finds it unset only sets it (the store, the loaded data and the
\* error list stay as they were); and a clear that succeeded leaves the
\* flag reset, so that the next clear again needs two clicks.
C8_ClearNeedsTwoClicks ==
    [][ /\ "clear_database" \in ui'.did
            => ui'.last = "clear" /\ session.confirm_clear
        /\ (session'.confirm_clear /\ ~session.confirm_clear)
            => ui'.last = "clear"
        /\ (ui'.last = "clear" /\ ~session.confirm_clear)
            => /\ db' = db
               /\ session' = [session EXCEPT !.confirm_clear = TRUE]
               /\ processing_errors' = processing_errors
               /\ ui'.rerun
        /\ "clear_database:ok" \in ui'.did
            => ~session'.confirm_clear /\ ~session'.has_data /\ ~session'.data_loaded
      ]_vars

\* A second click, finding confirm_clear set, has cleared the store while
\* files were in the uploader, and the flag is reset.
C8_Witness ==
    /\ ui.last = "clear"
    /\ "clear_database:ok" \in ui.did
    /\ ~session.confirm_clear
    /\ db.exists
    /\ db.application_data = <<>>
    /\ uploaded_files # <<>>

\* ------------------------------------------------------------------------
\* Claims about the store of custom tables (SpecCustomTables).
\* ------------------------------------------------------------------------
\* C11: a successful save_custom_table_to_db under a table_name the store
\* already holds leaves the created_at column of that name as it was, and
\* every successful save sets updated_at to the time of the call.
C11_CreatedAtPreserved ==
    [][ (ret'.op = "save_custom_table_to_db" /\ ret'.ok /\ clock' = clock) =>
            /\ LastRow(db'.custom_tables, ret'.name).updated_at = Strftime(clock)
            /\ ~ret'.absent =>
                  LastRow(db'.custom_tables, ret'.name).created_at
                      = LastRow(db.custom_tables, ret'.name).created_at
      ]_vars

\* C12: a load of the custom tables returns, under every name whose last
\* successful save was not followed by a delete, a table with the columns
\* and the data of that save and with a created_at that is set.
C12_CustomTableRoundTrip ==
    (ret.op = "load_custom_tables_from_db" /\ ret.io = "ok") =>
        \A n \in TableNames :
            hist.custom[n] # JNull =>
                /\ n \in DOMAIN ret.value
                /\ Get(ret.value[n], "columns", JNull) = hist.custom[n].f.columns
                /\ Get(ret.value[n], "data", JNull) = hist.custom[n].f.data
                /\ ~Falsy(Get(ret.value[n], "created_at", JNull))

\* ------------------------------------------------------------------------
\* SpecEditor: the runs of create_custom_editable_tables().  Every button
\* and every edit in the data editor runs the function once.
\* ------------------------------------------------------------------------
MaxGridRows == 1    \* "Initial Rows" of a new table; Add Row stops one above

EditorNames == {"t1"}
\* The column names typed for a table from scratch (empty names are dropped).
ScratchColumns == {<<"a", "b">>}
\* The multiselect of a template and its additional custom columns.
TemplateSelections == {<<"instance_name", "app_name">>}
TemplateCustomColumns == {<<"Status">>, <<"app_name">>}

StrList(names) == JList([i \in 1..Len(names) |-> JStr(names[i])])

\* A row that has one cell whatever the columns are.
OneCellRow(columns) == JList(<<JStr("")>>)

\* ["" for _ in columns]
EmptyRow(columns) == JList([i \in 1..Len(columns.items) |-> JStr("")])

\* d[k] = v and del d[k] on a dict held as a function.
DictSet(d, k, v) == [n \in DOMAIN d \cup {k} |-> IF n = k THEN v ELSE d[n]]
DictDel(d, k) == [n \in DOMAIN d \ {k} |-> d[n]]

\* if 'custom_tables' not in st.session_state: .. = load_custom_tables_from_db()
EditorFirstRun ==
    /\ ~editor.loaded
    /\ \E io \in IoOutcomes :
          editor' = [NoEditor EXCEPT
                        !.loaded = TRUE,
                        !.custom_tables = IF io = "ok" THEN load_custom_tables_from_db(db)
                                          ELSE <<>>]
    /\ UNCHANGED <<storeVars, ingestVars, processing_errors, session, ui>>

\* The table_data Create Empty Table builds.
EmptyTable(columns, row_count, now) ==
    JObj([columns |-> StrList(columns),
          data |-> JList([r \in 1..row_count |-> EmptyRow(StrList(columns))]),
          created_at |-> JStr(Strftime(now))])

\* The table_data Create from Template builds from the rows of app_df:
\* template_df = filtered_df[selected_columns], then template_df[c] = "" for
\* every custom column (which replaces a selected column of the same name).
TemplateColumns(selected, custom) ==
    selected \o SelectSeq(custom, LAMBDA c : \A i \in 1..Len(selected) : selected[i] # c)
TemplateTable(app_df, selected, custom, now) ==
    LET cols == TemplateColumns(selected, custom)
        cell(row, c) == IF \E i \in 1..Len(custom) : custom[i] = c THEN "" ELSE row[c]
    IN  JObj([columns |-> StrList(cols),
              data |-> JList([r \in 1..Len(app_df) |->
                                 JList([i \in 1..Len(cols) |-> JStr(cell(app_df[r], cols[i]))])]),
              created_at |-> JStr(Strftime(now)),
              template_source |-> JStr("application_data")])

\* What both create buttons do with the table_data they built.
CreateTable(name, table_data, io) ==
    /\ editor.loaded
    /\ editor' = [editor EXCEPT
                     !.custom_tables = DictSet(@, name, table_data),
                     !.current_custom_table = name,
                     !.editing_table_data = table_data,
                     !.shared = TRUE]
    /\ Written("save_custom_table_to_db", name, name \notin Names(db.custom_tables),
               save_custom_table_to_db(db, name, table_data, clock), io)
    /\ hist' = IF ret'.ok THEN [hist EXCEPT !.custom[name] = table_data] ELSE hist
    /\ UNCHANGED <<conn, clock, ingestVars, processing_errors, session, ui>>

CreateEmptyTable(name, columns, row_count, io) ==
    CreateTable(name, EmptyTable(columns, row_count, clock), io)

CreateFromTemplate(name, selected, custom, io) ==
    /\ session.has_data
    /\ session.processed_data # <<>>
    /\ CreateTable(name, TemplateTable(session.processed_data, selected, custom, clock), io)

\* "Load Data from Database" of the template tab, drawn when there is no
\* application data in the session.
EditorLoadData(io) ==
    /\ editor.loaded
    /\ ~(session.has_data /\ session.processed_data # <<>>)
    /\ LET db_data == Loaded(db, io) IN
       session' = IF db_data # <<>>
                      THEN [session EXCEPT !.has_data = TRUE, !.processed_data = db_data,
                                           !.data_loaded = TRUE]
                      ELSE session
    /\ UNCHANGED <<storeVars, ingestVars, processing_errors, ui, editor>>

\* The button of an existing table: open it in the editing area.
SelectTable(name) ==
    /\ editor.loaded
    /\ name \in DOMAIN editor.custom_tables
    /\ editor' = [editor EXCEPT
                     !.current_custom_table = name,
                     !.editing_table_data = editor.custom_tables[name],
                     !.shared = TRUE]
    /\ UNCHANGED <<storeVars, ingestVars, processing_errors, session, ui>>

\* The delete button of an existing table.
DeleteTable(name, io) ==
    /\ editor.loaded
    /\ name \in DOMAIN editor.custom_tables
    /\ Written("delete_custom_table_from_db", name, name \notin Names(db.custom_tables),
               delete_custom_table_from_db(db, name), io)
    /\ hist' = IF ret'.ok THEN [hist EXCEPT !.custom[name] = JNull] ELSE hist
    /\ editor' = IF ret'.ok /\ editor.current_custom_table = name
                     THEN [editor EXCEPT !.custom_tables = DictDel(@, name),
                                         !.current_custom_table = "",
                                         !.editing_table_data = JNull,
                                         !.shared = FALSE]
                     ELSE [editor EXCEPT !.custom_tables = DictDel(@, name),
                                         !.shared = @ /\ editor.current_custom_table # name]
    /\ UNCHANGED <<conn, clock, ingestVars, processing_errors, session, ui>>

\* if st.session_state.current_custom_table and st.session_state.editing_table_data:
EditingShown ==
    /\ editor.loaded
    /\ editor.current_custom_table # ""
    /\ editor.editing_table_data # JNull

\* A row appended to a list that two dicts hold is appended in both.
Appended(table_data, row) == [table_data EXCEPT !.f.data.items = Append(@, row)]

\* Add Row: table_data['data'].append(["" for _ in table_data['columns']])
AddRow ==
    /\ EditingShown
    /\ Len(editor.editing_table_data.f.data.items) <= MaxGridRows
    /\ LET row == EmptyRow(editor.editing_table_data.f.columns)
           name == editor.current_custom_table
       IN  editor' = [editor EXCEPT
                         !.editing_table_data = Appended(@, row),
                         !.custom_tables =
                             IF editor.shared /\ name \in DOMAIN @
                                 THEN [@ EXCEPT ![name] = Appended(@, row)]
                                 ELSE @]
    /\ UNCHANGED <<storeVars, ingestVars, processing_errors, session, ui>>

\* Save Changes: custom_tables[table_name] = table_data.copy(), then the save.
SaveChanges(io) ==
    /\ EditingShown
    /\ LET name == editor.current_custom_table
           table_data == editor.editing_table_data
       IN  /\ editor' = [editor EXCEPT !.custom_tables = DictSet(@, name, table_data),
                                       !.shared = TRUE]
           /\ Written("save_custom_table_to_db", name, name \notin Names(db.custom_tables),
                      save_custom_table_to_db(db, name, table_data, clock), io)
           /\ hist' = IF ret'.ok THEN [hist EXCEPT !.custom[name] = table_data] ELSE hist
    /\ UNCHANGED <<conn, clock, ingestVars, processing_errors, session, ui>>

\* Reset Changes: editing_table_data = custom_tables[table_name].copy()
\* (a KeyError when the name is no longer there: nothing changes).
ResetChanges ==
    /\ EditingShown
    /\ editor.current_custom_table \in DOMAIN editor.custom_tables
    /\ editor' = [editor EXCEPT
                     !.editing_table_data = editor.custom_tables[editor.current_custom_table],
                     !.shared = TRUE]
    /\ UNCHANGED <<storeVars, ingestVars, processing_errors, session, ui>>

\* What st.data_editor can return for df_data: a frame of the same columns
\* with the first cell typed over, the last row removed, or a row added.
Edits(table_data) ==
    LET rows == table_data.f.data.items
        n == Len(table_data.f.columns.items)
    IN  {[rows EXCEPT ![1] = [@ EXCEPT !.items[1] = JStr("x")]] : k \in {1} \cap DOMAIN rows}
        \cup {SubSeq(rows, 1, Len(rows) - 1) : k \in {1} \cap DOMAIN rows}
        \cup {Append(rows, JList([i \in 1..n |-> JStr("")])) : k \in {1} \cap 1..(MaxGridRows + 1 - Len(rows))}

\* if not edited_df.equals(df_data): editing_table_data['data'] = edited_df.values.tolist()
EditCells ==
    /\ EditingShown
    /\ \E rows \in Edits(editor.editing_table_data) :
          /\ rows # editor.editing_table_data.f.data.items
          /\ editor' = [editor EXCEPT !.editing_table_data.f.data.items = rows,
                                      !.shared = FALSE]
    /\ UNCHANGED <<storeVars, ingestVars, processing_errors, session, ui>>

NextEditor ==
    \/ StoreInitDatabase
    \/ \E io \in IoOutcomes : SaveDataCall(<<AppInfo(DocOne, AppFull)>>, io)
    \/ EditorFirstRun
    \/ \E io \in IoOutcomes : EditorLoadData(io)
    \/ \E name \in EditorNames, columns \in ScratchColumns, row_count \in 1..MaxGridRows,
          io \in IoOutcomes : CreateEmptyTable(name, columns, row_count, io)
    \/ \E name \in EditorNames, selected \in TemplateSelections,
          custom \in TemplateCustomColumns, io \in IoOutcomes :
          CreateFromTemplate(name, selected, custom, io)
    \/ \E name \in EditorNames : SelectTable(name)
    \/ \E name \in EditorNames, io \in IoOutcomes : DeleteTable(name, io)
    \/ AddRow
    \/ \E io \in IoOutcomes : SaveChanges(io)
    \/ ResetChanges
    \/ EditCells

SpecEditor == InitStore /\ [][NextEditor]_vars

\* The rows of a stored table_data whose length is not the column count.
RaggedRows(text) ==
    LET t == json_loads(text) IN
    {i \in 1..Len(t.f.data.items) : Len(t.f.data.items[i].items) # Len(t.f.columns.items)}

\* C13: every table in custom_tables has all its rows as long as its list
\* of columns.
C13_RowsMatchColumns ==
    \A i \in 1..Len(db.custom_tables) : RaggedRows(db.custom_tables[i].table_data) = {}

\* Witness of C13: a table of two columns was saved over its earlier version
\* from the editing area, with a typed cell and a row added.
C13_Witness ==
    /\ ret.op = "save_custom_table_to_db"
    /\ ret.ok
    /\ ~ret.absent
    /\ \E i \in 1..Len(db.custom_tables) :
          LET t == json_loads(db.custom_tables[i].table_data) IN
          /\ Len(t.f.columns.items) = 2
          /\ Len(t.f.data.items) = 2
          /\ t.f.data.items[1].items[1] = JStr("x")
          /\ RaggedRows(db.custom_tables[i].table_data) = {}

\* ------------------------------------------------------------------------
\* SpecIngestTwice: process_instance_data runs on a batch and then a second
\* time on the same file objects, which are where the first pass left them.
\* ------------------------------------------------------------------------
MaxRerunFiles == 2  \* files in a batch that is ingested twice

InitIngestTwice ==
    /\ uploaded_files \in Batches(Contents, MaxRerunFiles)
    /\ idx = 1
    /\ all_dataframes = <<>>
    /\ combined_df = <<>>
    /\ ipc = "loop"
    /\ processing_errors = <<>>
    /\ StoreIdle
    /\ UiIdle

\* The second call: the caller empties processing_errors, the body starts
\* over with all_dataframes = [] on the same uploaded_files.
IngestAgain ==
    /\ ipc = "done"
    /\ hist.pass = 1
    /\ hist' = [hist EXCEPT !.pass = 2,
                            !.first = [df |-> combined_df, errs |-> processing_errors]]
    /\ idx' = 1
    /\ all_dataframes' = <<>>
    /\ combined_df' = <<>>
    /\ processing_errors' = <<>>
    /\ ipc' = "loop"
    /\ UNCHANGED <<uploaded_files, db, conn, ret, clock, uiVars>>

NextIngestTwice == IngestLoop \/ IngestReturn \/ IngestAgain

SpecIngestTwice == InitIngestTwice /\ [][NextIngestTwice]_vars

\* C14: the second pass over the same file objects returns the dataset of
\* the first pass and records the errors of the first pass.
C14_IngestIdempotent ==
    (ipc = "done" /\ hist.pass = 2) =>
        /\ combined_df = hist.first.df
        /\ processing_errors = hist.first.errs

\* ------------------------------------------------------------------------
\* Claims about the load functions.
\* ------------------------------------------------------------------------
\* C15: a load (of the dataset, of the user table configurations, of the
\* custom tables) that hit a failure of the store hands its caller
\* something else than the empty result a load of an empty store returns.
C15_LoadFailureIsDistinct ==
    (/\ ret.op \in {"load_data_from_db", "load_user_tables_from_db",
                    "load_custom_tables_from_db"}
     /\ ret.io = "error") =>
        ret.value # <<>>

\* ------------------------------------------------------------------------
\* Claims about validation and flattening (SpecIngest).
\* ------------------------------------------------------------------------
\* An unread file whose content is a JSON object that breaks the schema: a
\* required field is missing or of the wrong type, or an entry of
\* applications is not an object or has no name.
BreaksSchema(file) ==
    /\ file.pos = 0
    /\ file.content.k = "json"
    /\ IsObj(file.content.v)
    /\ LET d == file.content.v IN
       \/ \E k \in {"instance_id", "instance_name", "applications"} : ~HasKey(d, k)
       \/ ~IsStr(d.f.instance_id)
       \/ ~IsStr(d.f.instance_name)
       \/ ~IsList(d.f.applications)
       \/ \E i \in 1..Len(d.f.applications.items) :
             \/ ~IsObj(d.f.applications.items[i])
             \/ ~HasKey(d.f.applications.items[i], "name")

\* C16: the loop step over a file whose document breaks the schema adds no
\* DataFrame (no row of the document reaches the dataset, whatever entries
\* come before the bad one) and appends exactly one entry, for that file,
\* to processing_errors.
C16_RejectedAsAWhole ==
    [][ (idx' = idx + 1 /\ BreaksSchema(uploaded_files[idx])) =>
            /\ all_dataframes' = all_dataframes
            /\ Len(processing_errors') = Len(processing_errors) + 1
            /\ SubSeq(processing_errors', 1, Len(processing_errors)) = processing_errors
            /\ \E msg \in {FailureMessage(uploaded_files[idx])} :
                  processing_errors'[Len(processing_errors')]
                      = "Error processing " \o uploaded_files[idx].name \o ": " \o msg
      ]_vars

\* Witness of C16: a document whose second application has no name, after a
\* valid first one, was ingested before a valid document: one error, and
\* only the row of the valid document.
C16_Witness ==
    /\ ipc = "done"
    /\ Len(uploaded_files) = 2
    /\ uploaded_files[1].content
          = JsonText(Doc(JStr("i-3"), JStr("web"), JList(<<AppMinimal, AppNoName>>)))
    /\ uploaded_files[2].content = JsonText(DocOne)
    /\ Len(processing_errors) = 1
    /\ Len(combined_df) = 1
    /\ combined_df[1].instance_id = "i-1"

\* ------------------------------------------------------------------------
\* SpecValidate: one file whose document has any subset of the top-level
\* fields, each with a value of the right or of a wrong type, goes through
\* process_instance_data.
\* ------------------------------------------------------------------------
TopLevelFields == {"instance_id", "instance_name", "applications", "script_version"}
ValuesOf(k) ==
    CASE k = "instance_id"   -> {JStr("i-1"), JNum(7)}
      [] k = "instance_name" -> {JStr("web"), JStr(" ")}
      [] k = "applications"  -> {JList(<<AppFull>>), JList(<<AppMinimal, AppFull>>),
                                 JStr("nginx"), JList(<<AppMinimal, AppNoName>>)}
      [] OTHER               -> {JStr("1.0")}
ValidateDocs ==
    UNION {{JObj(f) : f \in {g \in [K -> UNION {ValuesOf(k) : k \in TopLevelFields}] :
                                \A k \in K : g[k] \in ValuesOf(k)}} :
           K \in SUBSET TopLevelFields}

InitValidate ==
    /\ uploaded_files \in {<<NewFile(1, JsonText(d))>> : d \in ValidateDocs}
    /\ idx = 1
    /\ all_dataframes = <<>>
    /\ combined_df = <<>>
    /\ ipc = "loop"
    /\ processing_errors = <<>>
    /\ StoreIdle
    /\ UiIdle

SpecValidate == InitValidate /\ [][NextIngest]_vars

\* The required fields a document does not have, and how the error names
\* them.
Missing(d) == {k \in {"instance_id", "instance_name", "applications"} : ~HasKey(d, k)}
Named(M) ==
    CASE M = {"instance_id"} -> "instance_id"
      [] M = {"instance_name"} -> "instance_name"
      [] M = {"applications"} -> "applications"
      [] M = {"instance_id", "instance_name"} -> "instance_id, instance_name"
      [] M = {"instance_id", "applications"} -> "instance_id, applications"
      [] M = {"instance_name", "applications"} -> "instance_name, applications"
      [] M = {"instance_id", "instance_name", "applications"}
            -> "instance_id, instance_name, applications"
      [] OTHER -> ""

\* C17: a document that lacks required fields fails with one error that
\* names all of them, whatever the types of the fields it has.
C17_AllMissingFieldsNamed ==
    (idx > 1 /\ Missing(uploaded_files[1].content.v) # {}) =>
        /\ all_dataframes = <<>>
        /\ processing_errors
              = <<"Error processing f1.json: Error processing file: Missing required fields: "
                  \o Named(Missing(uploaded_files[1].content.v))>>

\* Witness of C17: instance_id is there but is a number, the two other
\* fields are missing: the error names the two and not the wrong type.
C17_Witness ==
    /\ ipc = "done"
    /\ uploaded_files[1].content.v = JObj([instance_id |-> JNum(7)])
    /\ processing_errors
          = <<"Error processing f1.json: Error processing file: Missing required fields: instance_name, applications">>

\* The positions of the files of the batch that fail, and the position of
\* the j-th of them.
Failing == {k \in 1..Len(uploaded_files) : FileFails(Unread(uploaded_files[k]))}
NthFailing(j) == CHOOSE k \in Failing : Cardinality({m \in Failing : m <= k}) = j

\* C18: after the pass processing_errors holds one entry per failing file,
\* in file order, and nothing else; a file whose applications list is empty
\* is one of them, with the entry that says so, and adds no row.
C18_OneErrorPerFailingFile ==
    ipc = "done" =>
        /\ Len(processing_errors) = Cardinality(Failing)
        /\ \A j \in 1..Len(processing_errors) :
              processing_errors[j]
                  = "Error processing " \o FileName(NthFailing(j)) \o ": "
                    \o FailureMessage(Unread(uploaded_files[NthFailing(j)]))
        /\ \A k \in 1..Len(uploaded_files) :
              (/\ uploaded_files[k].content.k = "json"
               /\ IsObj(uploaded_files[k].content.v)
               /\ Missing(uploaded_files[k].content.v) = {}
               /\ uploaded_files[k].content.v.f.applications = JList(<<>>)
               /\ IsStr(uploaded_files[k].content.v.f.instance_id)
               /\ IsStr(uploaded_files[k].content.v.f.instance_name)) =>
                  /\ k \in Failing
                  /\ ("Error processing " \o FileName(k)
                        \o ": Error processing file: 'applications' list is empty")
                         \in Range(processing_errors)
        /\ Len(combined_df) = Offset(uploaded_files, Len(uploaded_files) + 1)

\* Witness of C18: a valid file with two applications and a file with an
\* empty applications list: two rows and the one entry of the second file.
C18_Witness ==
    /\ ipc = "done"
    /\ Len(uploaded_files) = 2
    /\ uploaded_files[1].content = JsonText(DocTwo)
    /\ uploaded_files[2].content = JsonText(Doc(JStr("i-3"), JStr("web"), JList(<<>>)))
    /\ Len(combined_df) = 2
    /\ processing_errors
          = <<"Error processing f2.json: Error processing file: 'applications' list is empty">>

\* An unread file that holds a valid instance document: the required fields
\* with their types, a non-empty applications list of objects with a name,
\* and ports and pids that are lists where they are given.
ValidDocument(file) ==
    /\ file.pos = 0
    /\ file.content.k = "json"
    /\ IsObj(file.content.v)
    /\ Missing(file.content.v) = {}
    /\ LET d == file.content.v IN
       /\ IsStr(d.f.instance_id) /\ d.f.instance_id.s \notin {"", " ", "  "}
       /\ IsStr(d.f.instance_name) /\ d.f.instance_name.s \notin {"", " ", "  "}
       /\ IsList(d.f.applications)
       /\ d.f.applications.items # <<>>
       /\ \A i \in 1..Len(d.f.applications.items) :
             LET app == d.f.applications.items[i] IN
             /\ IsObj(app)
             /\ HasKey(app, "name")
             /\ \A k \in {"ports", "pids"} : HasKey(app, k) => IsList(app.f[k])

\* C19: the loop step over a valid document adds one DataFrame with one row
\* per application, row i built from application i, every row with the
\* instance_id, the instance_name and the script_version of the document
\* ('Unknown' when the document has no script_version).
C19_OneRowPerApplication ==
    [][ (idx' = idx + 1 /\ ValidDocument(uploaded_files[idx])) =>
            LET d == uploaded_files[idx].content.v
                apps == d.f.applications.items
                rows == all_dataframes'[Len(all_dataframes')]
            IN  /\ Len(all_dataframes') = Len(all_dataframes) + 1
                /\ processing_errors' = processing_errors
                /\ Len(rows) = Len(apps)
                /\ \A i \in 1..Len(apps) :
                      /\ i <= Len(rows)
                      /\ rows[i] = AppInfo(d, apps[i])
                      /\ rows[i].app_name = apps[i].f.name.s
                      /\ rows[i].instance_id = d.f.instance_id.s
                      /\ rows[i].instance_name = d.f.instance_name.s
                      /\ rows[i].script_version
                            = (IF HasKey(d, "script_version") THEN d.f.script_version.s
                               ELSE "Unknown")
      ]_vars

\* Witness of C19: a document of two applications has become two rows, in
\* the order of the applications.
C19_Witness ==
    /\ ipc = "done"
    /\ Len(uploaded_files) = 1
    /\ uploaded_files[1].content = JsonText(DocTwo)
    /\ processing_errors = <<>>
    /\ Len(combined_df) = 2
    /\ combined_df[1].app_name = "redis"
    /\ combined_df[2].app_name = "nginx"
    /\ combined_df[2].ports = "80, 443"
    /\ combined_df[1].instance_id = "i-2"
    /\ combined_df[2].script_version = "Unknown"

\* ------------------------------------------------------------------------
\* SpecPorts: load_data_from_db on a table whose rows hold any of the texts
\* a ports column can hold.
\* ------------------------------------------------------------------------
StoredPortsValues == {"", "80", "80, 443", "[80, 443]", "[]", "[80, tcp]", "[80", "nan", "None"}

StoredTables ==
    SeqsUpTo({[StoredRow(AppInfo(DocOne, AppFull)) EXCEPT !.ports = p] : p \in StoredPortsValues},
             MaxRows)

InitPorts ==
    /\ IngestIdle
    /\ UiIdle
    /\ conn = NoConn /\ ret = NoCall /\ hist = NoHist /\ clock = 1
    /\ db \in {[init_database(NoDb) EXCEPT !.application_data = t] : t \in StoredTables}

NextPorts == \E io \in IoOutcomes : LoadData(io)

SpecPorts == InitPorts /\ [][NextPorts]_vars

\* C20: a load that the store lets through returns one row per stored row,
\* with the ports text converted: a JSON array becomes its elements joined
\* by ', ', a comma-joined text stays as it is, and a text that is neither
\* (brackets around something that is no JSON, the texts of a missing value)
\* becomes the empty string.
C20_PortsConversion ==
    (ret.op = "load_data_from_db" /\ ret.io = "ok") =>
        /\ Len(ret.value) = Len(db.application_data)
        /\ \A i \in 1..Len(ret.value) :
              LET x == db.application_data[i].ports
                  y == ret.value[i].ports
              IN  /\ x = "[80, 443]" => y = "80, 443"
                  /\ x = "[]" => y = ""
                  /\ x \in {"80", "80, 443", "[80"} => y = x
                  /\ x \in {"[80, tcp]", "", "nan", "None"} => y = ""

\* Witness of C20: a load returned a row whose stored ports were a JSON
\* array and a row whose stored ports were brackets around no JSON.
C20_Witness ==
    /\ ret.op = "load_data_from_db"
    /\ ret.io = "ok"
    /\ Len(db.application_data) = 2
    /\ db.application_data[1].ports = "[80, 443]"
    /\ db.application_data[2].ports = "[80, tcp]"
    /\ ret.value[1].ports = "80, 443"
    /\ ret.value[2].ports = ""

\* ------------------------------------------------------------------------
\* SpecSummary: create_summary_metrics applied to the DataFrame that
\* process_instance_data returned, and to the zero-row DataFrame that
\* load_data_from_db reads from an empty table.
\* ------------------------------------------------------------------------
\* The DataFrame process_instance_data returns: pd.concat of DataFrames built
\* from app_info dicts, or pd.DataFrame(), which has no columns at all.
DataFrameOf(rows) ==
    [columns |-> IF rows = <<>> THEN {}
                 ELSE {"instance_id", "instance_name", "script_version", "app_name",
                       "app_type", "app_status", "app_image", "ports", "pids",
                       "process_name", "container_id"},
     rows |-> rows]

\* pd.read_sql_query('SELECT * FROM application_data') on a table without
\* rows: no rows, the columns of the table.
EmptyTableFrame ==
    [columns |-> {"id", "instance_id", "instance_name", "app_name", "app_type",
                  "app_status", "app_image", "ports", "created_at"},
     rows |-> <<>>]

\* df[col].nunique()
nunique(df, col) == Cardinality({df.rows[i][col] : i \in 1..Len(df.rows)})

\* round(n / g, 1), in tenths. With at most four groups the ties are
\* multiples of a quarter, which a float holds exactly, and round() takes
\* an exact tie to the even digit.
RoundTenths(n, g) ==
    LET q == (10 * n) \div g
        r == (10 * n) % g
    IN  IF 2 * r > g THEN q + 1
        ELSE IF 2 * r < g THEN q
        ELSE IF q % 2 = 0 THEN q ELSE q + 1

\* df[col].value_counts().to_dict()
value_counts(df, col) ==
    [v \in {df.rows[i][col] : i \in 1..Len(df.rows)} |->
        Cardinality({i \in 1..Len(df.rows) : df.rows[i][col] = v})]

\* create_summary_metrics(df): df['ports'] is read first, and indexing a
\* DataFrame by a column it does not have raises KeyError.
create_summary_metrics(df) ==
    IF "ports" \notin df.columns THEN Raise("KeyError: 'ports'")
    ELSE IF "instance_id" \notin df.columns THEN Raise("KeyError: 'instance_id'")
    ELSE IF "app_type" \notin df.columns THEN Raise("KeyError: 'app_type'")
    ELSE Ok([total_instances |-> nunique(df, "instance_id"),
             total_applications |-> Len(df.rows),
             unique_app_types |-> nunique(df, "app_type"),
             avg_apps_per_instance_tenths |->
                 IF nunique(df, "instance_id") > 0
                 THEN RoundTenths(Len(df.rows), nunique(df, "instance_id"))
                 ELSE 0,
             app_types |-> value_counts(df, "app_type")])

\* The summary of the DataFrame the ingest returned or, when that has no
\* rows, also of the DataFrame an empty table loads as.
Summarize ==
    /\ ipc = "done"
    /\ ret = NoCall
    /\ \E df \in {DataFrameOf(combined_df)}
                 \cup (IF combined_df = <<>> THEN {EmptyTableFrame} ELSE {}) :
          ret' = [op |-> "create_summary_metrics", df |-> df,
                  ok |-> create_summary_metrics(df).ok,
                  result |-> create_summary_metrics(df)]
    /\ UNCHANGED <<ingestVars, processing_errors, db, conn, hist, clock, uiVars>>

NextSummary == IngestLoop \/ IngestReturn \/ Summarize

SpecSummary == InitIngest /\ [][NextSummary]_vars

\* C21: on a dataset without rows the summary does not raise and the
\* average number of rows per instance is 0; this includes the DataFrame
\* process_instance_data returns when every file fails.
C21_AverageOfEmptyIsZero ==
    (ret.op = "create_summary_metrics" /\ ret.df.rows = <<>>) =>
        /\ ret.ok
        /\ ret.result.data.avg_apps_per_instance_tenths = 0

\* ------------------------------------------------------------------------
\* SpecFilter: the search box and the two select boxes of
\* create_data_table_page, applied to the session dataset.
\* ------------------------------------------------------------------------
\* The characters of the texts the model filters by and searches in.
Spelling ==
       "" :> <<>>
    @@ "nginx" :> <<"n", "g", "i", "n", "x">>
    @@ "NGINX" :> <<"N", "G", "I", "N", "X">>
    @@ "nginx-proxy" :> <<"n", "g", "i", "n", "x", "-", "p", "r", "o", "x", "y">>
    @@ "redis" :> <<"r", "e", "d", "i", "s">>
    @@ "docker" :> <<"d", "o", "c", "k", "e", "r">>
    @@ "process" :> <<"p", "r", "o", "c", "e", "s", "s">>
    @@ "web-1" :> <<"w", "e", "b", "-", "1">>
    @@ "db.1" :> <<"d", "b", ".", "1">>
    @@ "ngin." :> <<"n", "g", "i", "n", ".">>
    @@ "b.1" :> <<"b", ".", "1">>
    @@ "REDIS" :> <<"R", "E", "D", "I", "S">>
    @@ "zzz" :> <<"z", "z", "z">>
    @@ "web" :> <<"w", "e", "b">>
    @@ "(" :> <<"(">>

\* str.lower() of one character.
LowerChar(c) ==
    CASE c = "N" -> "n" [] c = "G" -> "g" [] c = "I" -> "i" [] c = "X" -> "x"
      [] c = "R" -> "r" [] c = "E" -> "e" [] c = "D" -> "d" [] c = "S" -> "s"
      [] OTHER -> c

\* term.lower() in value.lower(): the term is contained, whatever the case.
ContainsIgnoreCase(value, term) ==
    LET v == Spelling[value]
        t == Spelling[term]
    IN  \E off \in 0..(Len(v) - Len(t)) :
            \A i \in 1..Len(t) : LowerChar(t[i]) = LowerChar(v[off + i])

\* re.compile(pat, re.IGNORECASE): a parenthesis that is not closed is not
\* a pattern.
CompileOk(pat) == \A i \in 1..Len(Spelling[pat]) : Spelling[pat][i] # "("

\* re.search(pat, value, re.IGNORECASE) for a pattern of literal characters
\* and dots: a dot stands for any character.
ReSearch(pat, value) ==
    LET v == Spelling[value]
        t == Spelling[pat]
    IN  \E off \in 0..(Len(v) - Len(t)) :
            \A i \in 1..Len(t) : t[i] = "." \/ LowerChar(t[i]) = LowerChar(v[off + i])

\* Series.str.contains(search_term, case=False, na=False) on the three
\* columns, or-ed: regex=True is the default, the term is a pattern.
SearchMask(row, search_term) ==
    \/ ReSearch(search_term, row.app_name)
    \/ ReSearch(search_term, row.app_type)
    \/ ReSearch(search_term, row.instance_name)

\* filtered_df[mask]: the rows whose entry of the mask is true, in their order.
BoolIndex(rows, mask) ==
    LET kept == {i \in 1..Len(rows) : mask[i]}
    IN  [k \in 1..Cardinality(kept) |->
            rows[CHOOSE i \in kept : Cardinality({j \in kept : j <= i}) = k]]

\* The "Apply filters" block of create_data_table_page.
ApplyFilters(df, search_term, app_type_filter, instance_filter) ==
    IF search_term # "" /\ ~CompileOk(search_term) THEN Raise("re.error")
    ELSE LET searched ==
                 IF search_term # ""
                 THEN BoolIndex(df, [i \in 1..Len(df) |-> SearchMask(df[i], search_term)])
                 ELSE df
             typed ==
                 IF app_type_filter # "All"
                 THEN BoolIndex(searched, [i \in 1..Len(searched) |->
                                              searched[i].app_type = app_type_filter])
                 ELSE searched
         IN  IF instance_filter # "All"
             THEN Ok(BoolIndex(typed, [i \in 1..Len(typed) |->
                                          typed[i].instance_name = instance_filter]))
             ELSE Ok(typed)

SearchTerms == {"", "nginx", "NGINX", "REDIS", "docker", "web", "db.1", "ngin.", "b.1", "zzz", "("}

\* The rows of the datasets the page is shown.
FilterRows ==
    {[AppInfo(DocOne, AppFull) EXCEPT !.app_name = r[1], !.app_type = r[2],
                                      !.instance_name = r[3]] :
        r \in {<<"nginx-proxy", "docker", "web-1">>, <<"redis", "docker", "web-1">>,
               <<"NGINX", "process", "db.1">>, <<"redis", "process", "db.1">>}}

\* df[col].unique()
unique(df, col) == {df[i][col] : i \in 1..Len(df)}

\* main() shows the page only when the session holds a dataset with rows.
InitFilter ==
    /\ IngestIdle
    /\ StoreIdle
    /\ ui = NoUi
    /\ editor = NoEditor
    /\ \E d \in SeqsUpTo(FilterRows, MaxRows) \ {<<>>} :
          session = [NoSession EXCEPT !.has_data = TRUE, !.processed_data = d,
                                      !.data_loaded = TRUE]

\* One run of create_data_table_page with what the user typed and selected.
DataTablePage ==
    /\ session.has_data
    /\ session.processed_data # <<>>
    /\ \E search_term \in SearchTerms,
          app_type_filter \in {"All"} \cup unique(session.processed_data, "app_type"),
          instance_filter \in {"All"} \cup unique(session.processed_data, "instance_name") :
          \E r \in {ApplyFilters(session.processed_data, search_term,
                                 app_type_filter, instance_filter)} :
             ret' = [op |-> "create_data_table_page", df |-> session.processed_data,
                     search_term |-> search_term, app_type_filter |-> app_type_filter,
                     instance_filter |-> instance_filter, ok |-> r.ok, result |-> r]
    /\ UNCHANGED <<ingestVars, processing_errors, db, conn, hist, clock, uiVars>>

SpecFilter == InitFilter /\ [][DataTablePage]_vars

\* What the claim asks of one row.
AllPredicatesHold(row, search_term, app_type_filter, instance_filter) ==
    /\ search_term # "" =>
          \/ ContainsIgnoreCase(row.app_name, search_term)
          \/ ContainsIgnoreCase(row.app_type, search_term)
          \/ ContainsIgnoreCase(row.instance_name, search_term)
    /\ app_type_filter # "All" => row.app_type = app_type_filter
    /\ instance_filter # "All" => row.instance_name = instance_filter

\* C22: the filter returns, in dataset order, exactly the rows that contain
\* the search term (whatever the case) in app_name, app_type or
\* instance_name and that equal the type and the instance filter when these
\* are not 'All'; the session dataset is left as it was.
C22_FilterIsConjunction ==
    ret.op = "create_data_table_page" =>
        /\ ret.ok
        /\ ret.result.data =
              BoolIndex(ret.df, [i \in 1..Len(ret.df) |->
                  AllPredicatesHold(ret.df[i], ret.search_term, ret.app_type_filter,
                                    ret.instance_filter)])
        /\ session.processed_data = ret.df

\* ------------------------------------------------------------------------
\* SpecRestart: the script runs of main() in a session that starts on a
\* store an earlier session has saved a dataset to.
\* ------------------------------------------------------------------------
\* What the earlier session saved: nothing, one row, or two rows of which
\* one has ports that read as a JSON array.
SavedBefore ==
    {<<>>,
     <<AppInfo(DocOne, AppFull)>>,
     <<AppInfo(DocOne, AppFull), AppInfo(DocTwo, AppBracket)>>}

InitRestart ==
    /\ IngestIdle
    /\ UiIdle
    /\ conn = NoConn
    /\ ret = NoCall
    /\ hist = NoHist
    /\ clock = 1
    /\ db \in {save_data_to_db(init_database(NoDb), d).d : d \in SavedBefore}

SpecRestart == InitRestart /\ [][Next]_vars

\* C23: the first run of main() in a fresh session (data_loaded false, no
\* processed_data, nothing in the uploader) on a store that holds rows
\* leaves the session with the dataset load_data_from_db returns for that
\* store and with data_loaded true, unless the load itself failed.
C23_RestoredOnRestart ==
    [][ ( /\ ui.last = "start"
          /\ ~session.data_loaded
          /\ ~session.has_data
          /\ db.application_data # <<>>
          /\ "auto_load:failed" \notin ui'.did )
        => /\ uploaded_files' = <<>>
           /\ session'.has_data
           /\ session'.data_loaded
           /\ session'.processed_data = load_data_from_db(db)
           /\ session'.processed_data # <<>>
           /\ db' = db
      ]_vars

\* The first run has restored two stored rows with nothing in the uploader.
C23_Witness ==
    /\ ui.last = "run"
    /\ ui.did = {"auto_load"}
    /\ uploaded_files = <<>>
    /\ Len(db.application_data) = 2
    /\ session.data_loaded
    /\ session.has_data
    /\ session.processed_data = load_data_from_db(db)

\* ------------------------------------------------------------------------
\* SpecLegacy: the user-table functions on a store whose user_tables table
\* has the columns init_database creates (no custom_columns) and holds the
\* rows a version of the program without that column has written.
\* ------------------------------------------------------------------------
\* A row of the table without the custom_columns column.
LegacyRow(name, cfg) ==
    [table_name |-> name,
     columns |-> json_dumps(cfg.columns),
     filters |-> json_dumps(cfg.filters),
     custom_columns |-> <<>>,
     created_at |-> Strftime(1)]

LegacyTables ==
    {<<>>} \cup {<<LegacyRow("t1", cfg)>> : cfg \in UserConfigs}
           \cup {<<LegacyRow("t1", c1), LegacyRow("t2", c2)>> : c1 \in UserConfigs, c2 \in UserConfigs}

InitLegacy ==
    /\ IngestIdle
    /\ UiIdle
    /\ conn = NoConn
    /\ ret = NoCall
    /\ hist = NoHist
    /\ clock = 1
    /\ db \in {[init_database(NoDb) EXCEPT !.user_tables = t] : t \in LegacyTables}

SpecLegacy == InitLegacy /\ [][NextUserTables]_vars

\* C24: load_user_tables_from_db on a user_tables table without the
\* custom_columns column returns a configuration for every stored name,
\* with the stored columns and filters and with custom_columns the empty
\* mapping; a successful save_user_table_to_db leaves the column in the
\* table, the column is never dropped again, and a save that finds the
\* column there does not fail for adding it a second time and leaves the
\* rows of the other names as they are.
C24_MissingColumnTolerated ==
    [][ /\ ( /\ ret'.op = "load_user_tables_from_db"
             /\ ret'.io = "ok"
             /\ ~db'.has_custom_columns )
           => /\ ret'.ok
              /\ DOMAIN ret'.value = Names(db'.user_tables)
              /\ \A n \in DOMAIN ret'.value :
                    /\ ret'.value[n].custom_columns = JObj(<<>>)
                    /\ ret'.value[n].columns = json_loads(LastRow(db'.user_tables, n).columns)
                    /\ ret'.value[n].filters = json_loads(LastRow(db'.user_tables, n).filters)
        /\ (ret'.op = "save_user_table_to_db" /\ ret'.ok) => db'.has_custom_columns
        /\ db.has_custom_columns => db'.has_custom_columns
        /\ ( /\ ret'.op = "save_user_table_to_db"
             /\ ret'.io = "ok"
             /\ db.has_custom_columns )
           => /\ ret'.ok
              /\ Without(db'.user_tables, ret'.name) = Without(db.user_tables, ret'.name)
      ]_vars

\* A load has returned both configurations of a table that has no
\* custom_columns column, each with the empty mapping.
C24_Witness ==
    /\ ret.op = "load_user_tables_from_db"
    /\ ret.io = "ok"
    /\ ~db.has_custom_columns
    /\ Names(db.user_tables) = {"t1", "t2"}
    /\ DOMAIN ret.value = {"t1", "t2"}
    /\ ret.value["t1"].custom_columns = JObj(<<>>)
    /\ ret.value["t1"].columns = JList(<<JStr("app_name"), JStr("app_type")>>)

\* ------------------------------------------------------------------------
\* Claims about the script runs of main() (Spec).
\* ------------------------------------------------------------------------
\* C25: when a confirmed Clear Database has succeeded, the run that
\* st.rerun() starts leaves the application_data table empty, whatever the
\* uploader holds.
C25_ClearedStaysEmpty ==
    [][ (ui.rerun /\ ui.last = "clear" /\ "clear_database:ok" \in ui.did)
            => db'.application_data = <<>>
      ]_vars

\* SpecSession: the script runs of main() together with the button of the
\* custom table editor that loads the dataset into the session.
NextSession ==
    \/ Next
    \/ Idle /\ EditorFirstRun
    \/ \E io \in IoOutcomes : Idle /\ EditorLoadData(io)

SpecSession == Init /\ [][NextSession]_vars

\* C26: data_loaded is true only when processed_data is in the session and
\* has rows, and every step that sets data_loaded to false also removes
\* processed_data.
C26_LoadedImpliesData ==
    [][ /\ session'.data_loaded => (session'.has_data /\ session'.processed_data # <<>>)
        /\ (session.data_loaded /\ ~session'.data_loaded) => ~session'.has_data
      ]_vars

\* Reload Data has been pressed on a loaded session: data_loaded is false
\* and processed_data is gone.
C26_Witness ==
    /\ ui.last = "reload"
    /\ ui.rerun
    /\ uploaded_files # <<>>
    /\ ~session.data_loaded
    /\ ~session.has_data

\* C27: in the run that st.rerun() starts after Reload Data was pressed,
\* the uploaded files are ingested again and the session dataset is the
\* result of that ingest, also when the store holds rows.
C27_ReloadReingests ==
    [][ (ui.rerun /\ ui.last = "reload")
            => /\ ("ingest:body" \in ui'.did \/ "ingest:cached" \in ui'.did)
               /\ process_instance_data(uploaded_files).df # <<>>
                     => session'.processed_data = process_instance_data(uploaded_files).df
      ]_vars

\* ------------------------------------------------------------------------
\* Claims about the editing buffer of the custom table editor (SpecEditor).
\* ------------------------------------------------------------------------
\* C28: Add Row and an edit in the data editor change the editing buffer
\* only, not the table stored in custom_tables under that name, and Reset
\* Changes sets the buffer to that stored table: the rows added since the
\* table was loaded or last saved are gone after Reset Changes.
C28_ResetDiscardsEdits ==
    [][ /\ (AddRow \/ EditCells) => editor'.custom_tables = editor.custom_tables
        /\ ResetChanges =>
              editor'.editing_table_data = editor.custom_tables[editor.current_custom_table]
      ]_vars

\* ------------------------------------------------------------------------
\* Further claims about the script runs of main() (Spec).
\* ------------------------------------------------------------------------
\* C29: after every run of main() that has cleared processing_errors and
\* called process_instance_data on the uploaded files, processing_errors
\* holds the entries of the failing files of that batch, whether the body
\* of process_instance_data has run or the cache has answered.
C29_ErrorsAfterEveryIngest ==
    [][ ("ingest:body" \in ui'.did \/ "ingest:cached" \in ui'.did)
            => processing_errors' = process_instance_data(uploaded_files').errs
      ]_vars

\* C30: a run of main() whose ingest pass returns an empty dataset leaves
\* processed_data, data_loaded and the application_data table as they were
\* before the pass, and does not call save_data_to_db.
C30_EmptyIngestChangesNothing ==
    [][ ( /\ ("ingest:body" \in ui'.did \/ "ingest:cached" \in ui'.did)
          /\ process_instance_data(uploaded_files').df = <<>> )
        => /\ "save_data_to_db" \notin ui'.did
           /\ db'.application_data = db.application_data
           /\ session'.processed_data = session.processed_data
           /\ session'.has_data = session.has_data
           /\ session'.data_loaded = session.data_loaded
           /\ ~ui'.rerun
      ]_vars

\* A batch whose only file is empty has been ingested while the store held
\* rows that the run could not load: nothing but the error list changed.
C30_Witness ==
    /\ "ingest:body" \in ui.did
    /\ "save_data_to_db" \notin ui.did
    /\ uploaded_files # <<>>
    /\ process_instance_data(uploaded_files).df = <<>>
    /\ processing_errors # <<>>
    /\ ~session.data_loaded
    /\ ~session.has_data
    /\ db.application_data # <<>>

====
